---- MODULE Spec2Model ----
(***************************************************************************)
(* Controller side of the pymerang overlay-tunnel protocol:                *)
(*   src/pymerang/pymerang_server.py  PymerangController / PymerangServicer *)
(*   src/pymerang/vxlan_utils.py      TunnelVXLAN                           *)
(*   src/pymerang/etherws_utils.py    TunnelEtherWs                         *)
(* The storage collaborator (srv6_sdn_controller_state), the northbound    *)
(* interface and the OS network objects are modelled by their contract as  *)
(* the code uses it: a storage write whose result the code tests may be     *)
(* refused, the others take effect.  pymerang.utils and pymerang.tunnel_utils are not     *)
(* among the sources; what the model needs of them (the keep-alive loop,   *)
(* the tunnel-mode registry, the per-tenant address bookkeeping of the     *)
(* TunnelMode base class) follows the design document.                     *)
(*                                                                         *)
(* The controller calls create/destroy_tunnel_controller_endpoint with the *)
(* fields of a tunnel_info (deviceid, tenantid, external ip/port, vxlan    *)
(* port, vtep mac) and reads a status plus the VTEP fields back; the value *)
(* the mode's method returns is the status.                                *)
(***************************************************************************)
EXTENDS Integers, Sequences, FiniteSets, TLC

\* ------------------------------------------------------------------ bounds
\* keep-alive sessions (Event + thread) created in one behaviour
MaxSessions == 2
\* the configured max_keep_alive_lost (N consecutive missed probes)
MaxKeepAliveLost == 2
\* failed reconciliations counted from zero, and around the ceiling
FailBound == 2
\* networks the Ethernet-over-websocket allocators hand out in one behaviour
MaxNets == 1

\* --------------------------------------------------------- program constants
MAX_ALLOWED_RECONCILIATION_FAILURES == 10000000
\* pymerang_server.py:40
DEFAULT_VXLAN_PORT == 4789

STATUS_SUCCESS == "STATUS_SUCCESS"
STATUS_UNAUTHORIZED == "STATUS_UNAUTHORIZED"
STATUS_INTERNAL_ERROR == "STATUS_INTERNAL_ERROR"
\* an exception left the handler: no status was returned
RAISED == "RAISED"

Tenants == {"t1", "t2"}
DevIds == {"d1", "d2"}
\* the device the controller is followed for, as the (tenantid, deviceid) key
\* of its records; the tunnel modes are followed for several devices below
Keys == {<<"t1", "d1">>}
TenantOf(k) == k[1]
DevOf(k) == k[2]

\* ------------------------------------------------- TunnelVXLAN (vxlan_utils)
\* tenant ids as TunnelVXLAN keys its tables: the request's tenants and the
\* literal '0' that create/destroy use
VxTenants == Tenants \cup {"0"}
\* slot 0 is the controller's own VTEP, the other slots are device ids
CtrlSlot == "slot0"
Slots == DevIds \cup {CtrlSlot}
NoMac == <<"none", "none">>
NoAddr == 0
Families == {"v4", "v6"}

\* vxlan_utils.py:221,346 and 433: the tenant id is overwritten by '0'
VxTenantId(tenantid) == "0"

EmptyPool == [s \in Slots |-> NoAddr]

VxInit ==
    [ initiated |-> {},
      pools |-> {},
      ip4 |-> [t \in VxTenants |-> EmptyPool],
      ip6 |-> [t \in VxTenants |-> EmptyPool],
      mac |-> [d \in DevIds |-> NoMac],
      link |-> "absent",
      addrs |-> {},
      fdb |-> {},
      neigh |-> {} ]

\* TunnelMode.init_tenantid: the tenant's (empty) address tables
init_tenantid(vx, t) ==
    [vx EXCEPT !.pools = @ \cup {t}, !.ip4[t] = EmptyPool, !.ip6[t] = EmptyPool]

\* the next unused host address of a pool
NextFree(pool) ==
    CHOOSE n \in 1..(Cardinality(Slots) + 1) :
        /\ \A s \in Slots : pool[s] # n
        /\ \A m \in 1..(n - 1) : \E s \in Slots : pool[s] = m

\* TunnelMode.get_new_mgmt_ipv4 / get_new_mgmt_ipv6: the slot's address,
\* allocated on first use
get_new_mgmt_ip(pool, slot) ==
    IF pool[slot] # NoAddr THEN pool ELSE [pool EXCEPT ![slot] = NextFree(pool)]

\* TunnelMode.release_ipv4_address / release_ipv6_address
release_address(pool, slot) == [pool EXCEPT ![slot] = NoAddr]

\* TunnelMode.num_addresses: the device addresses the tenant still holds
num_addresses(vx, t) ==
    Cardinality({s \in DevIds : vx.ip4[t][s] # NoAddr})
    + Cardinality({s \in DevIds : vx.ip6[t][s] # NoAddr})

\* TunnelMode.release_tenantid: drop the tenant's address tables
release_tenantid(vx, t) ==
    [vx EXCEPT !.pools = @ \ {t}, !.ip4[t] = EmptyPool, !.ip6[t] = EmptyPool]

get_device_mgmtipv4(vx, t, slot) ==
    IF t \notin vx.pools \/ vx.ip4[t][slot] = NoAddr
    THEN <<"none", NoAddr>> ELSE <<"v4", vx.ip4[t][slot]>>

get_device_mgmtipv6(vx, t, slot) ==
    IF t \notin vx.pools \/ vx.ip6[t][slot] = NoAddr
    THEN <<"none", NoAddr>> ELSE <<"v6", vx.ip6[t][slot]>>

get_device_mgmtip(vx, tenantid, slot) ==
    LET t == VxTenantId(tenantid)
        a == get_device_mgmtipv4(vx, t, slot)
    IN  IF a[1] = "none" THEN get_device_mgmtipv6(vx, t, slot) ELSE a

\* a step of a TunnelVXLAN method: the object afterwards and how the step ended
\* ("ok" goes on, "raised" is an exception, anything else is the value returned)
Step(vx, out) == [vx |-> vx, out |-> out]

\* vxlan_utils.py:226  if tenantid not in self.initiated
VxNotInitiated(vx, tenantid) == VxTenantId(tenantid) \notin vx.initiated

\* vxlan_utils.py:228-236  mark the tenant, allocate the controller VTEP addresses
VxInitTenant(vx, tenantid) ==
    LET t == VxTenantId(tenantid)
        v0 == init_tenantid([vx EXCEPT !.initiated = @ \cup {t}], t)
        v1 == [v0 EXCEPT !.ip6[t] = get_new_mgmt_ip(@, CtrlSlot)]
    IN  Step([v1 EXCEPT !.ip4[t] = get_new_mgmt_ip(@, CtrlSlot)], "ok")

\* vxlan_utils.py:241-249  create_vxlan: the link must not exist yet
VxCreateLink(vx) ==
    IF vx.link # "absent" THEN Step(vx, "raised")
    ELSE Step([vx EXCEPT !.link = "down"], "ok")

\* vxlan_utils.py:252-266  enable_interface, add_address (IPv6, IPv4)
VxLinkUp(vx, tenantid) ==
    LET t == VxTenantId(tenantid)
    IN  IF vx.link = "absent" THEN Step(vx, "raised")
        ELSE Step([vx EXCEPT !.link = "up",
                             !.addrs = @ \cup {<<"v6", vx.ip6[t][CtrlSlot]>>,
                                               <<"v4", vx.ip4[t][CtrlSlot]>>}],
                  "ok")

\* vxlan_utils.py:268-286  remember the device MAC, allocate its VTEP address
VxAllocDevice(vx, ti) ==
    LET t == VxTenantId(ti.tenantid)
        v0 == [vx EXCEPT !.mac[ti.device_id] = ti.device_vtep_mac]
    IN  IF t \notin vx.pools THEN Step(v0, "raised")
        ELSE IF ti.device_external_ip[1] = "v6"
        THEN Step([v0 EXCEPT !.ip6[t] =
                      get_new_mgmt_ip(get_new_mgmt_ip(@, CtrlSlot), ti.device_id)],
                  "ok")
        ELSE IF ti.device_external_ip[1] = "v4"
        THEN Step([v0 EXCEPT !.ip4[t] =
                      get_new_mgmt_ip(get_new_mgmt_ip(@, CtrlSlot), ti.device_id)],
                  "ok")
        ELSE Step(v0, STATUS_INTERNAL_ERROR)

\* the VTEP fields create_tunnel_controller_endpoint writes into tunnel_info
\* (vxlan_utils.py:303-307)
VxFields(vx, ti) ==
    LET t == VxTenantId(ti.tenantid)
        fam == ti.device_external_ip[1]
        pool == IF fam = "v6" THEN vx.ip6[t] ELSE vx.ip4[t]
    IN  [ controller_vtep_mac |-> "ctrl-mac",
          controller_vtep_ip |-> <<fam, pool[CtrlSlot]>>,
          device_vtep_ip |-> <<fam, pool[ti.device_id]>>,
          vtep_mask |-> fam ]

NoFields ==
    [ controller_vtep_mac |-> "none",
      controller_vtep_ip |-> <<"none", NoAddr>>,
      device_vtep_ip |-> <<"none", NoAddr>>,
      vtep_mask |-> "none" ]

\* vxlan_utils.py:293-294 with 78-86  create_fdb_entry(dev, lladdr, dst, port):
\* fdb('add') on the link; the add of a lladdr that has an entry is refused
VxAddFdb(vx, ti) ==
    IF vx.link = "absent" \/ (\E e \in vx.fdb : e.lladdr = ti.device_vtep_mac)
    THEN Step(vx, "raised")
    ELSE Step([vx EXCEPT !.fdb = @ \cup {[ lladdr |-> ti.device_vtep_mac,
                                          dst |-> ti.device_external_ip,
                                          port |-> ti.vxlan_port ]}],
              "ok")

\* vxlan_utils.py:300-310  create_ip_neigh(dev, lladdr, dst=device_vtep_ip),
\* get_mac_address, return; device_vtep_ip is the local variable that lines
\* 273-281 assigned
VxAddNeighFor(vx, ti, device_vtep_ip) ==
    IF vx.link = "absent" THEN Step(vx, "raised")
    ELSE Step([vx EXCEPT !.neigh = @ \cup {[ dst |-> device_vtep_ip,
                                            lladdr |-> ti.device_vtep_mac ]}],
              STATUS_SUCCESS)

\* the same where nothing ran since the address was allocated: the local
\* variable holds what the tenant's table holds
VxAddNeigh(vx, ti) == VxAddNeighFor(vx, ti, VxFields(vx, ti).device_vtep_ip)

\* vxlan_utils.py:353-359  look the device VTEP address up, remove_ip_neigh
VxDelNeigh(vx, ti) ==
    LET ip == get_device_mgmtip(vx, ti.tenantid, ti.device_id)
    IN  IF ip[1] = "none" \/ vx.link = "absent" THEN Step(vx, "raised")
        ELSE Step([vx EXCEPT !.neigh = {e \in @ : e.dst # ip}], "ok")

\* vxlan_utils.py:362-366 with 99-105  remove_fdb_entry(dev, lladdr):
\* fdb('del') on the link; the del of a lladdr that has no entry is refused
VxDelFdb(vx, ti) ==
    IF vx.link = "absent" \/ ~(\E e \in vx.fdb : e.lladdr = vx.mac[ti.device_id])
    THEN Step(vx, "raised")
    ELSE Step([vx EXCEPT !.fdb = {e \in @ : e.lladdr # vx.mac[ti.device_id]}], "ok")

\* vxlan_utils.py:368-369  release the device's addresses of both families
VxRelease(vx, ti) ==
    LET t == VxTenantId(ti.tenantid)
    IN  Step([vx EXCEPT !.ip4[t] = release_address(@, ti.device_id),
                        !.ip6[t] = release_address(@, ti.device_id)], "ok")

\* vxlan_utils.py:371  if self.num_addresses(tenantid) == 0
VxIsLast(vx, tenantid) == num_addresses(vx, VxTenantId(tenantid)) = 0

\* vxlan_utils.py:373-391  del_address of the controller's IPv4 and IPv6
VxDelAddrs(vx, tenantid) ==
    LET t == VxTenantId(tenantid)
        a4 == get_device_mgmtipv4(vx, t, CtrlSlot)
        a6 == get_device_mgmtipv6(vx, t, CtrlSlot)
    IN  IF a4[1] = "none" \/ a6[1] = "none" \/ vx.link = "absent"
        THEN Step(vx, "raised")
        ELSE Step([vx EXCEPT !.addrs = @ \ {a4, a6}], "ok")

\* vxlan_utils.py:396  remove_interface: the link goes with what hangs on it
VxRemoveLink(vx) ==
    IF vx.link = "absent" THEN Step(vx, "raised")
    ELSE Step([vx EXCEPT !.link = "absent", !.addrs = {}, !.fdb = {}, !.neigh = {}],
              "ok")

\* VxReleaseTenant with a fault seeded: the tenant stays marked as initiated
VxReleaseTenantKeepsMarker(vx, tenantid) ==
    LET t == VxTenantId(tenantid)
    IN  IF t \notin vx.initiated THEN Step(release_tenantid(vx, t), "raised")
        ELSE Step(release_tenantid(vx, t), STATUS_SUCCESS)

\* vxlan_utils.py:398-402  release_tenantid, self.initiated.remove, return
VxReleaseTenant(vx, tenantid) ==
    LET t == VxTenantId(tenantid)
    IN  IF t \notin vx.initiated THEN Step(release_tenantid(vx, t), "raised")
        ELSE Step([release_tenantid(vx, t) EXCEPT !.initiated = @ \ {t}],
                  STATUS_SUCCESS)

\* the statements of create/destroy_tunnel_controller_endpoint that touch the
\* TunnelVXLAN object or the link, by name
VxStatements ==
    {"c_init", "c_link", "c_up", "c_alloc", "c_fdb", "c_neigh",
     "d_neigh", "d_fdb", "d_release", "d_deladdr", "d_rmlink", "d_reltenant"}

\* what a statement does to the TunnelVXLAN object
VxStatement(pc, vx, ti) ==
    CASE pc = "c_init" -> VxInitTenant(vx, ti.tenantid)
      [] pc = "c_link" -> VxCreateLink(vx)
      [] pc = "c_up" -> VxLinkUp(vx, ti.tenantid)
      [] pc = "c_alloc" -> VxAllocDevice(vx, ti)
      [] pc = "c_fdb" -> VxAddFdb(vx, ti)
      [] pc = "c_neigh" -> VxAddNeigh(vx, ti)
      [] pc = "d_neigh" -> VxDelNeigh(vx, ti)
      [] pc = "d_fdb" -> VxDelFdb(vx, ti)
      [] pc = "d_release" -> VxRelease(vx, ti)
      [] pc = "d_deladdr" -> VxDelAddrs(vx, ti.tenantid)
      [] pc = "d_rmlink" -> VxRemoveLink(vx)
      [] pc = "d_reltenant" -> VxReleaseTenant(vx, ti.tenantid)

\* the statement after a statement that went on ("d_last": the test of
\* vxlan_utils.py:371; "done": the method is over)
VxAfter(pc) ==
    CASE pc = "c_init" -> "c_link"
      [] pc = "c_link" -> "c_up"
      [] pc = "c_up" -> "c_alloc"
      [] pc = "c_alloc" -> "c_fdb"
      [] pc = "c_fdb" -> "c_neigh"
      [] pc = "d_neigh" -> "d_fdb"
      [] pc = "d_fdb" -> "d_release"
      [] pc = "d_release" -> "d_last"
      [] pc = "d_deladdr" -> "d_rmlink"
      [] pc = "d_rmlink" -> "d_reltenant"
      [] OTHER -> "done"

\* statement pc on the result of a step that went on; a step that ended stays
\* (the step is evaluated once, as the value of v)
Then(s, pc, ti) ==
    CHOOSE r \in {IF v.out = "ok" THEN VxStatement(pc, v.vx, ti) ELSE v : v \in {s}} :
        TRUE

\* vxlan_utils.py:207-310  TunnelVXLAN.create_tunnel_controller_endpoint, whole
VxCreate(vx, ti) ==
    LET first == IF VxNotInitiated(vx, ti.tenantid)
                 THEN Then(Then(VxStatement("c_init", vx, ti), "c_link", ti), "c_up", ti)
                 ELSE Step(vx, "ok")
    IN  Then(Then(Then(first, "c_alloc", ti), "c_fdb", ti), "c_neigh", ti)

\* vxlan_utils.py:339-402  TunnelVXLAN.destroy_tunnel_controller_endpoint, whole
VxDestroy(vx, ti) ==
    CHOOSE r \in
        { IF d.out # "ok" THEN d
          ELSE IF VxIsLast(d.vx, ti.tenantid)
          THEN Then(Then(VxStatement("d_deladdr", d.vx, ti), "d_rmlink", ti),
                    "d_reltenant", ti)
          ELSE Step(d.vx, STATUS_SUCCESS)
          : d \in {Then(Then(VxStatement("d_neigh", vx, ti), "d_fdb", ti),
                        "d_release", ti)} } : TRUE

\* vxlan_utils.py:413-417  TunnelVXLAN.update_tunnel_controller_endpoint:
\* destroy, and create if the destroy returned STATUS_SUCCESS
VxUpdate(vx, ti) ==
    CHOOSE r \in { IF d.out = STATUS_SUCCESS THEN VxCreate(d.vx, ti) ELSE d
                   : d \in {VxDestroy(vx, ti)} } : TRUE

\* the device's controller endpoint is live: its forwarding entry is installed
VxEndpoint(vx, k) == \E e \in vx.fdb : e.lladdr = k

\* --------------------------------------------- TunnelEtherWs (etherws_utils)
EwInit == [ nets |-> 0, device_ip |-> [d \in DevIds |-> NoAddr], taps |-> {} ]

\* etherws_utils.py:182-215  create_tunnel_controller_endpoint: takes the next
\* network of the family's allocator, creates the TAP port, returns tunnel_info
EwCreate(ew, ti) ==
    [ vx |-> [ew EXCEPT !.nets = @ + 1,
                        !.device_ip[ti.device_id] = ew.nets + 1,
                        !.taps = @ \cup {ti.device_id}],
      out |-> "tunnel_info" ]

\* etherws_utils.py:223-225  destroy_tunnel_controller_endpoint: del_etherws_port(1),
\* no return statement
EwDestroy(ew, ti) == [ vx |-> [ew EXCEPT !.taps = {}], out |-> "None" ]

\* ------------------------------------------------------- tunnel-mode registry
\* utils.TunnelState.tunnel_modes: the modes by name
tunnel_modes == {"vxlan", "etherws"}

\* vxlan_utils.py:116 and etherws_utils.py:140
require_keep_alive_messages(name) == name \in {"vxlan", "etherws"}

\* the NAT classifications of pynat that a device reports in mgmt_info.nat_type
NatTypes ==
    {"OPEN", "FULL_CONE", "RESTRICTED_CONE", "RESTRICTED_PORT", "SYMMETRIC",
     "UDP_FIREWALL", "BLOCKED"}

\* vxlan_utils.py:118-123  TunnelVXLAN's supported_nat_types
VxSupportedNatTypes == {"OPEN", "FULL_CONE", "RESTRICTED_CONE", "RESTRICTED_PORT"}

\* etherws_utils.py:151-158  TunnelEtherWs's supported_nat_types
EwSupportedNatTypes ==
    {"OPEN", "FULL_CONE", "RESTRICTED_CONE", "RESTRICTED_PORT", "SYMMETRIC",
     "UDP_FIREWALL"}

\* the descriptor a mode hands to TunnelMode.__init__ (vxlan_utils.py:129,
\* etherws_utils.py:160-161)
supported_nat_types(name) ==
    IF name = "vxlan" THEN VxSupportedNatTypes ELSE EwSupportedNatTypes

\* --------------------------------------------------------------- the storage
DeviceStates ==
    {"UNKNOWN", "REGISTERED", "WORKING", "REBOOT_REQUIRED", "REBOOTING", "FAILURE"}

NoDevice ==
    [ exists |-> FALSE, state |-> "UNKNOWN", connected |-> FALSE,
      tunnel_mode |-> "none", mgmt |-> "none",
      reconciliation_flag |-> FALSE, reconciliation_failures |-> 0 ]

\* srv6_sdn_controller_state.register_device: a new record
NewDevice == [NoDevice EXCEPT !.exists = TRUE, !.state = "REGISTERED"]

\* a record the storage may hold when the controller starts: a device that
\* re-registered and whose reconciliation failed again and again
VeteranDevice ==
    [NewDevice EXCEPT !.state = "REBOOT_REQUIRED", !.reconciliation_flag = TRUE,
                      !.reconciliation_failures =
                          MAX_ALLOWED_RECONCILIATION_FAILURES - 1]

\* -------------------------------------------------------- the controller state
\* one record w holds what the handlers read and write:
\*   db                  the storage's device records
\*   connected_devices   self.connected_devices: key -> its stop Event (0: no entry)
\*   events              the Events that are set
\*   nevents             the Events created so far
\*   mon                 the keep-alive threads started so far
\*   vxlan, etherws      the two tunnel modes' objects
\* a request's tunnel_mode, the family of its device_external_ip, its nat_type
NoRequest == [ tunnel_name |-> "none", ext |-> "none", nat_type |-> "none" ]

\* the result of a handler that its caller has not taken yet: the handler, the
\* key and request it ran for, the status and what else the reply carries
\* calls: the storage, tunnel-mode and northbound calls the handler made, in
\* order; vxlan_port, tenantid: what the reply of RegisterDevice carries
NoReply ==
    [ op |-> "none", key |-> <<"none", "none">>, req |-> NoRequest,
      status |-> "none", fields |-> NoFields, device_state |-> "none",
      calls |-> <<>>, vxlan_port |-> 0, tenantid |-> "none" ]

Reply(op, k, req, status, fields, w) ==
    [ op |-> op, key |-> k, req |-> req, status |-> status, fields |-> fields,
      device_state |-> IF w.db[k].exists THEN w.db[k].state ELSE "none",
      calls |-> <<>>, vxlan_port |-> 0, tenantid |-> "none" ]

TunnelInfo(k, ext) ==
    [ device_id |-> DevOf(k), tenantid |-> TenantOf(k),
      device_external_ip |-> <<ext, k>>, device_external_port |-> "external_port",
      vxlan_port |-> "vxlan_port", device_vtep_mac |-> k ]

\* what a handler leaves: the state and the value returned (RAISED: an exception)
Res(w, status) == [w |-> w, status |-> status, fields |-> NoFields, calls |-> <<>>]

\* the same, with the calls the handler made on its way
Called(r, calls) == [r EXCEPT !.calls = calls]

\* tunnel_modes[name].create_tunnel_controller_endpoint(...)
ModeCreate(w, name, ti) ==
    IF name = "vxlan"
    THEN LET r == VxCreate(w.vxlan, ti)
         IN  [ w |-> [w EXCEPT !.vxlan = r.vx], out |-> r.out,
               fields |-> IF r.out = STATUS_SUCCESS THEN VxFields(r.vx, ti)
                          ELSE NoFields ]
    ELSE LET r == EwCreate(w.etherws, ti)
         IN  [ w |-> [w EXCEPT !.etherws = r.vx], out |-> r.out, fields |-> NoFields ]

\* tunnel_modes[name].destroy_tunnel_controller_endpoint(deviceid, tenantid)
ModeDestroy(w, name, ti) ==
    IF name = "vxlan"
    THEN LET r == VxDestroy(w.vxlan, ti)
         IN  [ w |-> [w EXCEPT !.vxlan = r.vx], out |-> r.out ]
    ELSE LET r == EwDestroy(w.etherws, ti)
         IN  [ w |-> [w EXCEPT !.etherws = r.vx], out |-> r.out ]

\* a tunnel-mode step that raised leaves the handler by the exception
Status(out) == IF out = "raised" THEN RAISED ELSE out

\* pymerang_server.py:666-676  Thread(target=utils.start_keep_alive_icmp, ...)
NewThread(k, ev) ==
    [ key |-> k, session |-> ev, pc |-> "probe", lost |-> 0, fired |-> 0 ]

\* StartKeepAlive with a fault seeded: the new Event is not stored under the key
StartKeepAliveUnregistered(w, k, name) ==
    LET old == w.connected_devices[k]
        ev == w.nevents + 1
        w1 == [w EXCEPT !.events = IF old # 0 THEN @ \cup {old} ELSE @,
                        !.nevents = ev]
    IN  IF require_keep_alive_messages(name)
        THEN [w1 EXCEPT !.mon = Append(@, NewThread(k, ev))]
        ELSE w1

\* StartKeepAlive with a fault seeded: two threads are started on the one Event
StartKeepAliveTwice(w, k, name) ==
    LET old == w.connected_devices[k]
        ev == w.nevents + 1
        w1 == [w EXCEPT !.events = IF old # 0 THEN @ \cup {old} ELSE @,
                        !.nevents = ev,
                        !.connected_devices[k] = ev]
    IN  IF require_keep_alive_messages(name)
        THEN [w1 EXCEPT !.mon = Append(Append(@, NewThread(k, ev)), NewThread(k, ev))]
        ELSE w1

\* pymerang_server.py:652-676  stop the key's running keep-alive thread by its
\* Event, register a new Event under the key, start a thread on it
StartKeepAlive(w, k, name) ==
    LET old == w.connected_devices[k]
        ev == w.nevents + 1
        w1 == [w EXCEPT !.events = IF old # 0 THEN @ \cup {old} ELSE @,
                        !.nevents = ev,
                        !.connected_devices[k] = ev]
    IN  IF require_keep_alive_messages(name)
        THEN [w1 EXCEPT !.mon = Append(@, NewThread(k, ev))]
        ELSE w1

\* update_mgmt_info with a fault seeded: the keep-alive session is replaced
\* before the endpoint is created
update_mgmt_info_session_first(w, k, a, fail) ==
    LET ti == TunnelInfo(k, a.ext)
        old == w.db[k].tunnel_mode
        d == IF old # "none" THEN ModeDestroy(w, old, ti) ELSE [w |-> w, out |-> STATUS_SUCCESS]
        w1 == IF old # "none" /\ d.out = STATUS_SUCCESS
              THEN [d.w EXCEPT !.db[k].tunnel_mode = "none"] ELSE d.w
        c == ModeCreate(StartKeepAlive(w1, k, a.tunnel_name), a.tunnel_name, ti)
        w2 == c.w
        w3 == [w2 EXCEPT !.db[k].mgmt = a.ext, !.db[k].tunnel_mode = a.tunnel_name]
        w4 == [w3 EXCEPT !.db[k].connected = TRUE]
        w5 == [w4 EXCEPT !.db[k].state = "WORKING"]
        torn == IF old # "none"
                THEN <<"destroy_tunnel_controller_endpoint", "set_tunnel_mode">>
                ELSE <<>>
        made == torn \o <<"start_keep_alive_icmp", "create_tunnel_controller_endpoint">>
        kept == torn \o <<"start_keep_alive_icmp", "create_tunnel_controller_endpoint", "update_mgmt_info">>
        flagged == kept \o <<"set_device_connected_flag">>
        all == flagged \o <<"change_device_state">>
    IN  IF d.out # STATUS_SUCCESS
        THEN Called(Res(d.w, Status(d.out)), <<"destroy_tunnel_controller_endpoint">>)
        ELSE IF a.tunnel_name \notin tunnel_modes THEN Called(Res(w1, RAISED), torn)
        ELSE IF c.out # STATUS_SUCCESS THEN Called(Res(c.w, Status(c.out)), made)
        ELSE IF fail = "update_mgmt_info"
        THEN Called(Res(w2, STATUS_INTERNAL_ERROR), kept)
        ELSE IF fail = "set_device_connected_flag"
        THEN Called(Res(w3, STATUS_INTERNAL_ERROR), flagged)
        ELSE IF fail = "change_device_state"
        THEN Called(Res(w4, STATUS_INTERNAL_ERROR), all)
        ELSE [w |-> w5, status |-> STATUS_SUCCESS, fields |-> c.fields, calls |-> all]

\* pymerang_server.py:596-736  PymerangController.update_mgmt_info
\* a: tunnel_name, ext (family of device_external_ip), nat_type (handed to the
\* storage's update_mgmt_info at line 684 and read nowhere else); fail: the
\* storage write that returns False, if any
update_mgmt_info(w, k, a, fail) ==
    LET ti == TunnelInfo(k, a.ext)
        old == w.db[k].tunnel_mode
        d == IF old # "none" THEN ModeDestroy(w, old, ti) ELSE [w |-> w, out |-> STATUS_SUCCESS]
        w1 == IF old # "none" /\ d.out = STATUS_SUCCESS
              THEN [d.w EXCEPT !.db[k].tunnel_mode = "none"] ELSE d.w
        c == ModeCreate(w1, a.tunnel_name, ti)
        w2 == StartKeepAlive(c.w, k, a.tunnel_name)
        w3 == [w2 EXCEPT !.db[k].mgmt = a.ext, !.db[k].tunnel_mode = a.tunnel_name]
        w4 == [w3 EXCEPT !.db[k].connected = TRUE]
        w5 == [w4 EXCEPT !.db[k].state = "WORKING"]
        torn == IF old # "none"
                THEN <<"destroy_tunnel_controller_endpoint", "set_tunnel_mode">>
                ELSE <<>>
        made == torn \o <<"create_tunnel_controller_endpoint">>
        kept == torn \o <<"create_tunnel_controller_endpoint", "start_keep_alive_icmp", "update_mgmt_info">>
        flagged == kept \o <<"set_device_connected_flag">>
        all == flagged \o <<"change_device_state">>
    IN  IF d.out # STATUS_SUCCESS
        THEN Called(Res(d.w, Status(d.out)), <<"destroy_tunnel_controller_endpoint">>)
        ELSE IF a.tunnel_name \notin tunnel_modes THEN Called(Res(w1, RAISED), torn)
        ELSE IF c.out # STATUS_SUCCESS THEN Called(Res(c.w, Status(c.out)), made)
        ELSE IF fail = "update_mgmt_info"
        THEN Called(Res(w2, STATUS_INTERNAL_ERROR), kept)
        ELSE IF fail = "set_device_connected_flag"
        THEN Called(Res(w3, STATUS_INTERNAL_ERROR), flagged)
        ELSE IF fail = "change_device_state"
        THEN Called(Res(w4, STATUS_INTERNAL_ERROR), all)
        ELSE [w |-> w5, status |-> STATUS_SUCCESS, fields |-> c.fields, calls |-> all]

\* pymerang_server.py:738-764  PymerangController.unregister_device
unregister_device(w, k) ==
    LET mode == w.db[k].tunnel_mode
        d == ModeDestroy(w, mode, TunnelInfo(k, "none"))
    IN  IF ~w.db[k].exists THEN Res(w, STATUS_INTERNAL_ERROR)
        ELSE IF mode = "none" THEN Res(w, STATUS_SUCCESS)
        ELSE Res(d.w, Status(d.out))

\* device_disconnected with a fault seeded: a teardown that fails still clears
\* the management info and removes the stop Event of the key
device_disconnected_forgets(w, k, fail) ==
    LET device == w.db[k]
        w1 == [w EXCEPT !.db[k].connected = FALSE]
        mode == device.tunnel_mode
        d == IF mode # "none" THEN ModeDestroy(w1, mode, TunnelInfo(k, "none"))
             ELSE [w |-> w1, out |-> STATUS_SUCCESS]
        w2 == IF mode # "none" THEN [d.w EXCEPT !.db[k].tunnel_mode = "none"] ELSE d.w
        w3 == [w2 EXCEPT !.db[k].mgmt = "none"]
    IN  IF ~device.exists THEN Res(w, STATUS_INTERNAL_ERROR)
        ELSE IF fail = "set_device_connected_flag" THEN Res(w, STATUS_INTERNAL_ERROR)
        ELSE IF d.out # STATUS_SUCCESS
        THEN Res([d.w EXCEPT !.db[k].mgmt = "none", !.connected_devices[k] = 0],
                 Status(d.out))
        ELSE IF w3.connected_devices[k] = 0 THEN Res(w3, RAISED)
        ELSE Res([w3 EXCEPT !.connected_devices[k] = 0], STATUS_SUCCESS)

\* device_disconnected with a fault seeded: the management info is not cleared
device_disconnected_keeps_mgmt(w, k, fail) ==
    LET device == w.db[k]
        w1 == [w EXCEPT !.db[k].connected = FALSE]
        mode == device.tunnel_mode
        d == IF mode # "none" THEN ModeDestroy(w1, mode, TunnelInfo(k, "none"))
             ELSE [w |-> w1, out |-> STATUS_SUCCESS]
        w3 == IF mode # "none" THEN [d.w EXCEPT !.db[k].tunnel_mode = "none"] ELSE d.w
    IN  IF ~device.exists THEN Res(w, STATUS_INTERNAL_ERROR)
        ELSE IF fail = "set_device_connected_flag" THEN Res(w, STATUS_INTERNAL_ERROR)
        ELSE IF d.out # STATUS_SUCCESS THEN Res(d.w, Status(d.out))
        ELSE IF w3.connected_devices[k] = 0 THEN Res(w3, RAISED)
        ELSE Res([w3 EXCEPT !.connected_devices[k] = 0], STATUS_SUCCESS)

\* device_disconnected with a fault seeded: the tunnel mode is cleared without
\* destroying the endpoint
device_disconnected_keeps_endpoint(w, k, fail) ==
    LET device == w.db[k]
        w1 == [w EXCEPT !.db[k].connected = FALSE]
        w2 == [w1 EXCEPT !.db[k].tunnel_mode = "none"]
        w3 == [w2 EXCEPT !.db[k].mgmt = "none"]
    IN  IF ~device.exists THEN Res(w, STATUS_INTERNAL_ERROR)
        ELSE IF fail = "set_device_connected_flag" THEN Res(w, STATUS_INTERNAL_ERROR)
        ELSE IF w3.connected_devices[k] = 0 THEN Res(w3, RAISED)
        ELSE Res([w3 EXCEPT !.connected_devices[k] = 0], STATUS_SUCCESS)

\* pymerang_server.py:766-809  PymerangController.device_disconnected
device_disconnected(w, k, fail) ==
    LET device == w.db[k]
        w1 == [w EXCEPT !.db[k].connected = FALSE]
        mode == device.tunnel_mode
        d == IF mode # "none" THEN ModeDestroy(w1, mode, TunnelInfo(k, "none"))
             ELSE [w |-> w1, out |-> STATUS_SUCCESS]
        w2 == IF mode # "none" THEN [d.w EXCEPT !.db[k].tunnel_mode = "none"] ELSE d.w
        w3 == [w2 EXCEPT !.db[k].mgmt = "none"]
    IN  IF ~device.exists THEN Res(w, STATUS_INTERNAL_ERROR)
        ELSE IF fail = "set_device_connected_flag" THEN Res(w, STATUS_INTERNAL_ERROR)
        ELSE IF d.out # STATUS_SUCCESS THEN Res(d.w, Status(d.out))
        ELSE IF w3.connected_devices[k] = 0 THEN Res(w3, RAISED)
        ELSE Res([w3 EXCEPT !.connected_devices[k] = 0], STATUS_SUCCESS)

\* reconciliation_failed with a fault seeded: the failure is not counted
reconciliation_failed_uncounted(w, k, fail, can_reboot) ==
    LET failures == w.db[k].reconciliation_failures
        w1 == [w EXCEPT !.db[k].state = "REBOOT_REQUIRED"]
    IN  IF fail = "change_device_state" THEN w
        ELSE IF failures >= MAX_ALLOWED_RECONCILIATION_FAILURES
        THEN IF fail = "change_device_state_failure" THEN w1
             ELSE [w1 EXCEPT !.db[k].state = "FAILURE"]
        ELSE w1

\* reconciliation_failed with a fault seeded: the ceiling is tested with >
reconciliation_failed_late(w, k, fail, can_reboot) ==
    LET failures == w.db[k].reconciliation_failures + 1
        w1 == [w EXCEPT !.db[k].state = "REBOOT_REQUIRED"]
        w2 == [w1 EXCEPT !.db[k].reconciliation_failures = failures]
    IN  IF fail = "change_device_state" THEN w
        ELSE IF failures > MAX_ALLOWED_RECONCILIATION_FAILURES
        THEN IF fail = "change_device_state_failure" THEN w2
             ELSE [w2 EXCEPT !.db[k].state = "FAILURE"]
        ELSE w2

\* reconciliation_failed with a fault seeded: below the ceiling, a device that
\* may be rebooted is put in REBOOTING (the code that lines 563-577 comment out)
reconciliation_failed_rebooting(w, k, fail, can_reboot) ==
    LET failures == w.db[k].reconciliation_failures + 1
        w1 == [w EXCEPT !.db[k].state = "REBOOT_REQUIRED"]
        w2 == [w1 EXCEPT !.db[k].reconciliation_failures = failures]
    IN  IF fail = "change_device_state" THEN w
        ELSE IF failures >= MAX_ALLOWED_RECONCILIATION_FAILURES
        THEN IF fail = "change_device_state_failure" THEN w2
             ELSE [w2 EXCEPT !.db[k].state = "FAILURE"]
        ELSE IF can_reboot THEN [w2 EXCEPT !.db[k].state = "REBOOTING"]
        ELSE w2

\* pymerang_server.py:522-593  PymerangController.reconciliation_failed
\* (its return value is dropped by the rollback that calls it)
\* can_reboot: what can_reboot_device answers; both of its branches only log
reconciliation_failed(w, k, fail, can_reboot) ==
    LET failures == w.db[k].reconciliation_failures + 1
        w1 == [w EXCEPT !.db[k].state = "REBOOT_REQUIRED"]
        w2 == [w1 EXCEPT !.db[k].reconciliation_failures = failures]
    IN  IF fail = "change_device_state" THEN w
        ELSE IF failures >= MAX_ALLOWED_RECONCILIATION_FAILURES
        THEN IF fail = "change_device_state_failure" THEN w2
             ELSE [w2 EXCEPT !.db[k].state = "FAILURE"]
        ELSE w2

\* the northbound steps of the reconciliation, in the order they are called
ReconciliationSteps ==
    << "prepare_db_for_device_reconciliation", "device_reconciliation",
       "overlay_reconciliation" >>

\* exec_reconciliation with a fault seeded: the rollback is not committed, so
\* reconciliation_failed runs when the block is left after the three steps
exec_reconciliation_uncommitted(w, k, nb, fail, can_reboot) ==
    LET bad == {i \in 1..3 : nb[i] # "200"}
        first == CHOOSE i \in bad : \A j \in bad : i <= j
        w1 == reconciliation_failed([w EXCEPT !.db[k].reconciliation_flag = FALSE],
                                    k, fail, can_reboot)
        after == IF w.db[k].reconciliation_flag THEN w1 ELSE w
        asked == <<"get_device_reconciliation_flag">>
        done == IF w.db[k].reconciliation_flag
                THEN asked \o <<"rollback.push">> \o ReconciliationSteps
                       \o <<"set_device_reconciliation_flag", "reconciliation_failed">>
                ELSE asked
    IN  IF w.db[k].reconciliation_flag /\ bad # {}
        THEN Called(Res(reconciliation_failed(w, k, fail, can_reboot),
                        IF nb[first] = "raise" THEN RAISED ELSE nb[first]),
                    asked \o <<"rollback.push">> \o SubSeq(ReconciliationSteps, 1, first)
                          \o <<"reconciliation_failed">>)
        ELSE IF fail = "reset_reconciliation_failures"
        THEN Called(Res(after, STATUS_INTERNAL_ERROR),
                    done \o <<"reset_reconciliation_failures">>)
        ELSE Called(Res([after EXCEPT !.db[k].reconciliation_failures = 0],
                        STATUS_SUCCESS),
                    done \o <<"reset_reconciliation_failures">>)

\* exec_reconciliation with a fault seeded: the reconciliation flag is not
\* read, the steps run on every call
exec_reconciliation_unconditional(w, k, nb, fail, can_reboot) ==
    LET bad == {i \in 1..3 : nb[i] # "200"}
        first == CHOOSE i \in bad : \A j \in bad : i <= j
        after == [w EXCEPT !.db[k].reconciliation_flag = FALSE]
        done == <<"rollback.push">> \o ReconciliationSteps
                  \o <<"set_device_reconciliation_flag", "rollback.commitAll">>
    IN  IF bad # {}
        THEN Called(Res(reconciliation_failed(w, k, fail, can_reboot),
                        IF nb[first] = "raise" THEN RAISED ELSE nb[first]),
                    <<"rollback.push">> \o SubSeq(ReconciliationSteps, 1, first)
                        \o <<"reconciliation_failed">>)
        ELSE IF fail = "reset_reconciliation_failures"
        THEN Called(Res(after, STATUS_INTERNAL_ERROR),
                    done \o <<"reset_reconciliation_failures">>)
        ELSE Called(Res([after EXCEPT !.db[k].reconciliation_failures = 0],
                        STATUS_SUCCESS),
                    done \o <<"reset_reconciliation_failures">>)

\* exec_reconciliation with a fault seeded: the code that
\* prepare_db_for_device_reconciliation returns is not tested
exec_reconciliation_goes_on(w, k, nb, fail, can_reboot) ==
    LET bad == {i \in 2..3 : nb[i] # "200"} \cup {i \in {1} : nb[i] = "raise"}
        first == CHOOSE i \in bad : \A j \in bad : i <= j
        w1 == [w EXCEPT !.db[k].reconciliation_flag = FALSE]
        after == IF w.db[k].reconciliation_flag THEN w1 ELSE w
        asked == <<"get_device_reconciliation_flag">>
        done == IF w.db[k].reconciliation_flag
                THEN asked \o <<"rollback.push">> \o ReconciliationSteps
                       \o <<"set_device_reconciliation_flag", "rollback.commitAll">>
                ELSE asked
    IN  IF w.db[k].reconciliation_flag /\ bad # {}
        THEN Called(Res(reconciliation_failed(w, k, fail, can_reboot),
                        IF nb[first] = "raise" THEN RAISED ELSE nb[first]),
                    asked \o <<"rollback.push">> \o SubSeq(ReconciliationSteps, 1, first)
                          \o <<"reconciliation_failed">>)
        ELSE IF fail = "reset_reconciliation_failures"
        THEN Called(Res(after, STATUS_INTERNAL_ERROR),
                    done \o <<"reset_reconciliation_failures">>)
        ELSE Called(Res([after EXCEPT !.db[k].reconciliation_failures = 0],
                        STATUS_SUCCESS),
                    done \o <<"reset_reconciliation_failures">>)

\* exec_reconciliation with a fault seeded: a reconciliation that succeeded
\* puts the device back in the state WORKING
exec_reconciliation_restores(w, k, nb, fail, can_reboot) ==
    LET bad == {i \in 1..3 : nb[i] # "200"}
        first == CHOOSE i \in bad : \A j \in bad : i <= j
        w1 == [w EXCEPT !.db[k].reconciliation_flag = FALSE,
                        !.db[k].state = "WORKING"]
        after == IF w.db[k].reconciliation_flag THEN w1 ELSE w
        asked == <<"get_device_reconciliation_flag">>
        done == IF w.db[k].reconciliation_flag
                THEN asked \o <<"rollback.push">> \o ReconciliationSteps
                       \o <<"set_device_reconciliation_flag", "rollback.commitAll">>
                ELSE asked
    IN  IF w.db[k].reconciliation_flag /\ bad # {}
        THEN Called(Res(reconciliation_failed(w, k, fail, can_reboot),
                        IF nb[first] = "raise" THEN RAISED ELSE nb[first]),
                    asked \o <<"rollback.push">> \o SubSeq(ReconciliationSteps, 1, first)
                          \o <<"reconciliation_failed">>)
        ELSE IF fail = "reset_reconciliation_failures"
        THEN Called(Res(after, STATUS_INTERNAL_ERROR),
                    done \o <<"reset_reconciliation_failures">>)
        ELSE Called(Res([after EXCEPT !.db[k].reconciliation_failures = 0],
                        STATUS_SUCCESS),
                    done \o <<"reset_reconciliation_failures">>)

\* exec_reconciliation with a fault seeded: reconciliation_failed is not pushed
\* on the rollback, a step that fails only ends the call
exec_reconciliation_unregistered(w, k, nb, fail, can_reboot) ==
    LET bad == {i \in 1..3 : nb[i] # "200"}
        first == CHOOSE i \in bad : \A j \in bad : i <= j
        w1 == [w EXCEPT !.db[k].reconciliation_flag = FALSE]
        after == IF w.db[k].reconciliation_flag THEN w1 ELSE w
        asked == <<"get_device_reconciliation_flag">>
        done == IF w.db[k].reconciliation_flag
                THEN asked \o ReconciliationSteps
                       \o <<"set_device_reconciliation_flag", "rollback.commitAll">>
                ELSE asked
    IN  IF w.db[k].reconciliation_flag /\ bad # {}
        THEN Called(Res(w, IF nb[first] = "raise" THEN RAISED ELSE nb[first]),
                    asked \o SubSeq(ReconciliationSteps, 1, first))
        ELSE IF fail = "reset_reconciliation_failures"
        THEN Called(Res(after, STATUS_INTERNAL_ERROR),
                    done \o <<"reset_reconciliation_failures">>)
        ELSE Called(Res([after EXCEPT !.db[k].reconciliation_failures = 0],
                        STATUS_SUCCESS),
                    done \o <<"reset_reconciliation_failures">>)

\* pymerang_server.py:811-857  PymerangController.exec_reconciliation
\* nb: the codes the three northbound steps return ("raise": the step raises);
\* fail: the storage write that returns False, if any
\* the calls include the rollback's: rollback.push(reconciliation_failed) and
\* rollback.commitAll()
exec_reconciliation(w, k, nb, fail, can_reboot) ==
    LET bad == {i \in 1..3 : nb[i] # "200"}
        first == CHOOSE i \in bad : \A j \in bad : i <= j
        w1 == [w EXCEPT !.db[k].reconciliation_flag = FALSE]
        after == IF w.db[k].reconciliation_flag THEN w1 ELSE w
        asked == <<"get_device_reconciliation_flag">>
        done == IF w.db[k].reconciliation_flag
                THEN asked \o <<"rollback.push">> \o ReconciliationSteps
                       \o <<"set_device_reconciliation_flag", "rollback.commitAll">>
                ELSE asked
    IN  IF w.db[k].reconciliation_flag /\ bad # {}
        THEN Called(Res(reconciliation_failed(w, k, fail, can_reboot),
                        IF nb[first] = "raise" THEN RAISED ELSE nb[first]),
                    asked \o <<"rollback.push">> \o SubSeq(ReconciliationSteps, 1, first)
                          \o <<"reconciliation_failed">>)
        ELSE IF fail = "reset_reconciliation_failures"
        THEN Called(Res(after, STATUS_INTERNAL_ERROR),
                    done \o <<"reset_reconciliation_failures">>)
        ELSE Called(Res([after EXCEPT !.db[k].reconciliation_failures = 0],
                        STATUS_SUCCESS),
                    done \o <<"reset_reconciliation_failures">>)

\* srv6_sdn_controller_state.get_tenant_config: the answers it gives. None when
\* the tenant is not found or the storage cannot be reached, else the tenant's
\* configuration, with or without a 'vxlan_port' (0: it has none)
ConfiguredPort == DEFAULT_VXLAN_PORT + 1
TenantConfigs ==
    { [readable |-> FALSE, vxlan_port |-> 0],
      [readable |-> TRUE, vxlan_port |-> 0],
      [readable |-> TRUE, vxlan_port |-> ConfiguredPort] }

\* register_device with a fault seeded: the tenant configuration is read before
\* the storage is written, and a failed read leaves the storage as it was
register_device_config_first(w, deviceid, tenantid, config) ==
    LET k == <<tenantid, deviceid>>
        w1 == IF w.db[k].exists
              THEN [w EXCEPT !.db[k].reconciliation_flag = TRUE]
              ELSE [w EXCEPT !.db[k] = NewDevice]
        calls == << "authenticate_device", "device_exists",
                    IF w.db[k].exists THEN "set_device_reconciliation_flag"
                    ELSE "register_device",
                    "get_tenant_config" >>
        none == [vxlan_port |-> 0, tenantid |-> "none"]
    IN  IF tenantid = "none"
        THEN Called(Res(w, STATUS_UNAUTHORIZED), <<"authenticate_device">>) @@ none
        ELSE IF ~config.readable
        THEN Called(Res(w, STATUS_INTERNAL_ERROR),
                    <<"authenticate_device", "get_tenant_config">>) @@ none
        ELSE Called(Res(w1, STATUS_SUCCESS), calls)
                 @@ [ vxlan_port |-> IF config.vxlan_port # 0 THEN config.vxlan_port
                                     ELSE DEFAULT_VXLAN_PORT,
                      tenantid |-> tenantid ]

\* register_device with a fault seeded: the device is recorded before the
\* token is looked at, under the tenant the request names
register_device_unauthenticated(w, deviceid, tenantid, config) ==
    LET k == <<IF tenantid = "none" THEN "t1" ELSE tenantid, deviceid>>
        w1 == IF w.db[k].exists
              THEN [w EXCEPT !.db[k].reconciliation_flag = TRUE]
              ELSE [w EXCEPT !.db[k] = NewDevice]
        calls == << "authenticate_device", "device_exists",
                    IF w.db[k].exists THEN "set_device_reconciliation_flag"
                    ELSE "register_device",
                    "get_tenant_config" >>
        none == [vxlan_port |-> 0, tenantid |-> "none"]
    IN  IF tenantid = "none"
        THEN Called(Res(w1, STATUS_UNAUTHORIZED), <<"authenticate_device">>) @@ none
        ELSE IF ~config.readable
        THEN Called(Res(w1, STATUS_INTERNAL_ERROR), calls) @@ none
        ELSE Called(Res(w1, STATUS_SUCCESS), calls)
                 @@ [ vxlan_port |-> IF config.vxlan_port # 0 THEN config.vxlan_port
                                     ELSE DEFAULT_VXLAN_PORT,
                      tenantid |-> tenantid ]

\* register_device with a fault seeded: the record of a device that exists is
\* created anew
register_device_recreates(w, deviceid, tenantid, config) ==
    LET k == <<tenantid, deviceid>>
        w1 == IF w.db[k].exists
              THEN [w EXCEPT !.db[k] = [NewDevice EXCEPT !.reconciliation_flag = TRUE]]
              ELSE [w EXCEPT !.db[k] = NewDevice]
        calls == << "authenticate_device", "device_exists",
                    IF w.db[k].exists THEN "set_device_reconciliation_flag"
                    ELSE "register_device",
                    "get_tenant_config" >>
        none == [vxlan_port |-> 0, tenantid |-> "none"]
    IN  IF tenantid = "none"
        THEN Called(Res(w, STATUS_UNAUTHORIZED), <<"authenticate_device">>) @@ none
        ELSE IF ~config.readable
        THEN Called(Res(w1, STATUS_INTERNAL_ERROR), calls) @@ none
        ELSE Called(Res(w1, STATUS_SUCCESS), calls)
                 @@ [ vxlan_port |-> IF config.vxlan_port # 0 THEN config.vxlan_port
                                     ELSE DEFAULT_VXLAN_PORT,
                      tenantid |-> tenantid ]

\* register_device with a fault seeded: the port of the tenant's configuration
\* is not looked up
register_device_default_port(w, deviceid, tenantid, config) ==
    LET k == <<tenantid, deviceid>>
        w1 == IF w.db[k].exists
              THEN [w EXCEPT !.db[k].reconciliation_flag = TRUE]
              ELSE [w EXCEPT !.db[k] = NewDevice]
        calls == << "authenticate_device", "device_exists",
                    IF w.db[k].exists THEN "set_device_reconciliation_flag"
                    ELSE "register_device",
                    "get_tenant_config" >>
        none == [vxlan_port |-> 0, tenantid |-> "none"]
    IN  IF tenantid = "none"
        THEN Called(Res(w, STATUS_UNAUTHORIZED), <<"authenticate_device">>) @@ none
        ELSE IF ~config.readable
        THEN Called(Res(w1, STATUS_INTERNAL_ERROR), calls) @@ none
        ELSE Called(Res(w1, STATUS_SUCCESS), calls)
                 @@ [ vxlan_port |-> DEFAULT_VXLAN_PORT,
                      tenantid |-> tenantid ]

\* pymerang_server.py:463-520  PymerangController.register_device
\* tenantid: the tenant the token authenticates ("none": it does not);
\* config: what get_tenant_config returns
register_device(w, deviceid, tenantid, config) ==
    LET k == <<tenantid, deviceid>>
        w1 == IF w.db[k].exists
              THEN [w EXCEPT !.db[k].reconciliation_flag = TRUE]
              ELSE [w EXCEPT !.db[k] = NewDevice]
        calls == << "authenticate_device", "device_exists",
                    IF w.db[k].exists THEN "set_device_reconciliation_flag"
                    ELSE "register_device",
                    "get_tenant_config" >>
        none == [vxlan_port |-> 0, tenantid |-> "none"]
    IN  IF tenantid = "none"
        THEN Called(Res(w, STATUS_UNAUTHORIZED), <<"authenticate_device">>) @@ none
        ELSE IF ~config.readable
        THEN Called(Res(w1, STATUS_INTERNAL_ERROR), calls) @@ none
        ELSE Called(Res(w1, STATUS_SUCCESS), calls)
                 @@ [ vxlan_port |-> IF config.vxlan_port # 0 THEN config.vxlan_port
                                     ELSE DEFAULT_VXLAN_PORT,
                      tenantid |-> tenantid ]

\* ----------------------------------------------------------------- the state
\* db, connected_devices, events, nevents, mon, vxlan, etherws: see above
\* alive   the devices that still answer probes and send requests
\* ret     the result of the handler that ran last, until it is taken
\* thr     the handler threads inside a TunnelVXLAN method (SpecRace)
VARIABLES db, connected_devices, events, nevents, mon, vxlan, etherws, alive, ret, thr

vars == <<db, connected_devices, events, nevents, mon, vxlan, etherws, alive, ret, thr>>

World ==
    [ db |-> db, connected_devices |-> connected_devices, events |-> events,
      nevents |-> nevents, mon |-> mon, vxlan |-> vxlan, etherws |-> etherws ]

Becomes(w) ==
    /\ db' = w.db
    /\ connected_devices' = w.connected_devices
    /\ events' = w.events
    /\ nevents' = w.nevents
    /\ mon' = w.mon
    /\ vxlan' = w.vxlan
    /\ etherws' = w.etherws

RaceThreads == {"T1", "T2"}
\* the device each handler thread serves: two devices of one tenant
RaceKey(t) == IF t = "T1" THEN <<"t1", "d1">> ELSE <<"t1", "d2">>

\* device_vtep_ip: the method's local variable of that name
IdleThread == [ pc |-> "idle", out |-> "none", device_vtep_ip |-> <<"none", NoAddr>> ]

\* PymerangController.__init__ (pymerang_server.py:366-396) and serve (859-863)
\* on an empty storage: nothing registered, no tunnel, no keep-alive session
Init ==
    /\ db = [k \in Keys |-> NoDevice]
    /\ connected_devices = [k \in Keys |-> 0]
    /\ events = {}
    /\ nevents = 0
    /\ mon = <<>>
    /\ vxlan = VxInit
    /\ etherws = EwInit
    /\ alive = [k \in Keys |-> TRUE]
    /\ ret = NoReply
    /\ thr = [t \in RaceThreads |-> IdleThread]

\* the failure counter is followed from zero and around the ceiling
CountedFailures(f) ==
    \/ f < FailBound
    \/ /\ f >= MAX_ALLOWED_RECONCILIATION_FAILURES - FailBound
       /\ f < MAX_ALLOWED_RECONCILIATION_FAILURES + FailBound

\* the kinds of device_external_ip a request carries: an IPv4 or IPv6 address,
\* or a string that is no address
ExternalIps == {"v4", "v6", "bad"}

\* the tunnel-mode names a request carries
TunnelNames == {"vxlan", "etherws", "unknown"}

\* the storage write of update_mgmt_info that returns False, if any
UpdateFailures ==
    {"none", "update_mgmt_info", "set_device_connected_flag", "change_device_state"}

\* the storage write of exec_reconciliation that returns False, if any
ReconFailures ==
    {"none", "change_device_state", "change_device_state_failure",
     "reset_reconciliation_failures"}

\* what the three northbound steps answer, up to the first that fails (the
\* steps after it are not called)
NbOutcomes ==
    {nb \in [1..3 -> {"200", "500", "raise"}] :
        \A i \in 1..3 : \A j \in 1..3 : (i < j /\ nb[i] # "200") => nb[j] = "200"}

\* a handler runs when the result of the one before has been taken
Idle == ret = NoReply

\* pymerang_server.py:56-212  PymerangServicer.RegisterDevice
\* the reply of an unauthorized registration carries the status alone (176-179);
\* so does the one of a registration that failed, for which the device is
\* looked up without a tenant (180-187)
RegisterDeviceWith(k, token, config) ==
    /\ Idle /\ alive[k]
    /\ \E r \in {register_device(World, DevOf(k), token, config)} :
           /\ Becomes(r.w)
           /\ ret' = [Reply("RegisterDevice", k, NoRequest, r.status, NoFields, r.w)
                          EXCEPT !.calls = r.calls,
                                 !.vxlan_port = r.vxlan_port,
                                 !.tenantid = r.tenantid,
                                 !.device_state =
                                     IF r.status # STATUS_SUCCESS THEN "none" ELSE @]
    /\ UNCHANGED <<alive, thr>>

RegisterDevice(k) ==
    \E token \in {TenantOf(k), "none"} : \E config \in TenantConfigs :
        RegisterDeviceWith(k, token, config)

\* pymerang_server.py:214-292  PymerangServicer.UpdateMgmtInfo
UpdateMgmtInfoWith(k, a, fail) ==
    /\ Idle /\ alive[k]
    /\ db[k].exists
    /\ nevents < MaxSessions
    /\ a.tunnel_name = "etherws" => etherws.nets < MaxNets
    /\ \E r \in {update_mgmt_info(World, k, a, fail)} :
           /\ Becomes(r.w)
           /\ ret' = [Reply("UpdateMgmtInfo", k, a, r.status, r.fields, r.w)
                          EXCEPT !.calls = r.calls]
    /\ UNCHANGED <<alive, thr>>

\* the NAT types the device reports where the whole lifecycle is followed: one
\* that both modes list and one that only Ethernet-over-websocket lists
ReportedNatTypes == {"OPEN", "SYMMETRIC"}

UpdateMgmtInfoFrom(k, nats) ==
    \E name \in TunnelNames : \E ext \in ExternalIps : \E nat \in nats :
        \E fail \in UpdateFailures :
            UpdateMgmtInfoWith(k, [tunnel_name |-> name, ext |-> ext,
                                   nat_type |-> nat], fail)

UpdateMgmtInfo(k) == UpdateMgmtInfoFrom(k, ReportedNatTypes)

\* pymerang_server.py:294-310  PymerangServicer.UnregisterDevice
UnregisterDevice(k) ==
    /\ Idle /\ alive[k]
    /\ \E r \in {unregister_device(World, k)} :
           /\ Becomes(r.w)
           /\ ret' = Reply("UnregisterDevice", k, NoRequest, r.status, NoFields, r.w)
    /\ UNCHANGED <<alive, thr>>

\* KeepAlive with a fault seeded: the message resets the count of lost probes
\* of the device's keep-alive threads
KeepAliveResetsCount(k) ==
    /\ Idle /\ alive[k]
    /\ ret' = Reply("KeepAlive", k, NoRequest,
                    IF db[k].exists THEN STATUS_SUCCESS ELSE STATUS_INTERNAL_ERROR,
                    NoFields, World)
    /\ mon' = [i \in 1..Len(mon) |->
                  IF mon[i].key = k THEN [mon[i] EXCEPT !.lost = 0] ELSE mon[i]]
    /\ UNCHANGED <<db, connected_devices, events, nevents, vxlan, etherws,
                   alive, thr>>

\* pymerang_server.py:312-331  PymerangServicer.KeepAlive
KeepAlive(k) ==
    /\ Idle /\ alive[k]
    /\ ret' = Reply("KeepAlive", k, NoRequest,
                    IF db[k].exists THEN STATUS_SUCCESS ELSE STATUS_INTERNAL_ERROR,
                    NoFields, World)
    /\ UNCHANGED <<db, connected_devices, events, nevents, mon, vxlan, etherws,
                   alive, thr>>

\* pymerang_server.py:333-361  PymerangServicer.ExecReconciliation
ExecReconciliationWith(k, nb, fail, can_reboot) ==
    /\ Idle /\ alive[k]
    /\ db[k].exists
    /\ CountedFailures(db[k].reconciliation_failures)
    /\ \E r \in {exec_reconciliation(World, k, nb, fail, can_reboot)} :
           /\ Becomes(r.w)
           /\ ret' = [Reply("ExecReconciliation", k, NoRequest, r.status, NoFields, r.w)
                          EXCEPT !.calls = r.calls]
    /\ UNCHANGED <<alive, thr>>

ExecReconciliation(k) ==
    \E nb \in NbOutcomes : \E fail \in ReconFailures : \E can_reboot \in BOOLEAN :
        ExecReconciliationWith(k, nb, fail, can_reboot)

\* the reply goes out (the value a callback returns is dropped)
Return ==
    /\ ~Idle
    /\ ret' = NoReply
    /\ UNCHANGED <<db, connected_devices, events, nevents, mon, vxlan, etherws,
                   alive, thr>>

\* ------------------------------------------------------ the keep-alive thread
\* utils.start_keep_alive_icmp(mgmtip, interval, max_lost, stop_event, callback):
\* the thread probes; a probe that is answered resets the count of lost probes,
\* a miss adds one; at max_lost misses the thread calls back and ends; otherwise
\* it waits the interval, ends if its stop Event is set, and probes again
MonitorProbe(i) ==
    /\ Idle
    /\ i \in 1..Len(mon)
    /\ mon[i].pc = "probe"
    /\ \E answered \in {FALSE, alive[mon[i].key]} :
         LET lost == IF answered THEN 0 ELSE mon[i].lost + 1
         IN  mon' = [mon EXCEPT ![i].lost = lost,
                                ![i].pc = IF lost >= MaxKeepAliveLost
                                          THEN "callback" ELSE "wait"]
    /\ UNCHANGED <<db, connected_devices, events, nevents, vxlan, etherws, alive,
                   ret, thr>>

MonitorWait(i) ==
    /\ Idle
    /\ i \in 1..Len(mon)
    /\ mon[i].pc = "wait"
    /\ mon' = IF mon[i].session \in events
              THEN [mon EXCEPT ![i].pc = "done", ![i].lost = 0]
              ELSE [mon EXCEPT ![i].pc = "probe"]
    /\ UNCHANGED <<db, connected_devices, events, nevents, vxlan, etherws, alive,
                   ret, thr>>

\* pymerang_server.py:673  lambda: self.device_disconnected(deviceid, tenantid)
MonitorCallbackWith(i, fail) ==
    /\ Idle
    /\ i \in 1..Len(mon)
    /\ mon[i].pc = "callback"
    /\ \E r \in {device_disconnected(World, mon[i].key, fail)} :
           /\ Becomes([r.w EXCEPT !.mon[i].pc = "done", !.mon[i].lost = 0,
                                  !.mon[i].fired = @ + 1])
           /\ ret' = Reply("device_disconnected", mon[i].key,
                           [NoRequest EXCEPT !.tunnel_name = db[mon[i].key].tunnel_mode],
                           r.status, NoFields, r.w)
    /\ UNCHANGED <<alive, thr>>

MonitorCallback(i) ==
    \E fail \in {"none", "set_device_connected_flag"} : MonitorCallbackWith(i, fail)

Monitor(i) ==
    \/ MonitorProbe(i)
    \/ MonitorWait(i)
    \/ MonitorCallback(i)

\* the tunnel lifecycle of the device with its keep-alive threads
Next ==
    \/ \E k \in Keys : RegisterDevice(k)
    \/ \E k \in Keys : UpdateMgmtInfo(k)
    \/ \E k \in Keys : UnregisterDevice(k)
    \/ \E k \in Keys : KeepAlive(k)
    \/ \E i \in 1..MaxSessions : Monitor(i)
    \/ Return

Spec == Init /\ [][Next]_vars

\* --------------------------------------------- device_disconnected, any key
\* pymerang_server.py:766-809  PymerangController.device_disconnected called
\* for a key, whether or not the storage holds a record of the device
DeviceDisconnectedWith(k, fail) ==
    /\ Idle
    /\ \E r \in {device_disconnected(World, k, fail)} :
           /\ Becomes(r.w)
           /\ ret' = Reply("device_disconnected", k,
                           [NoRequest EXCEPT !.tunnel_name = db[k].tunnel_mode],
                           r.status, NoFields, r.w)
    /\ UNCHANGED <<alive, thr>>

DeviceDisconnected(k) ==
    \E fail \in {"none", "set_device_connected_flag"} : DeviceDisconnectedWith(k, fail)

DisconnectNext ==
    \/ \E k \in Keys : RegisterDevice(k)
    \/ \E k \in Keys : UpdateMgmtInfo(k)
    \/ \E k \in Keys : UnregisterDevice(k)
    \/ \E k \in Keys : DeviceDisconnected(k)
    \/ \E i \in 1..MaxSessions : Monitor(i)
    \/ Return

SpecDisconnect == Init /\ [][DisconnectNext]_vars

\* ------------------------------------------------------- the device goes away
\* the device stops answering probes and sends no further request
DeviceDies(k) ==
    /\ Idle
    /\ alive[k]
    /\ alive' = [alive EXCEPT ![k] = FALSE]
    /\ UNCHANGED <<db, connected_devices, events, nevents, mon, vxlan, etherws,
                   ret, thr>>

\* the keep-alive thread where the storage takes the writes of the teardown
MonitorLive(i) ==
    \/ MonitorProbe(i)
    \/ MonitorWait(i)
    \/ MonitorCallbackWith(i, "none")

LiveNext ==
    \/ \E k \in Keys : RegisterDevice(k)
    \/ \E k \in Keys : UpdateMgmtInfo(k)
    \/ \E k \in Keys : UnregisterDevice(k)
    \/ \E k \in Keys : DeviceDies(k)
    \/ \E i \in 1..MaxSessions : MonitorLive(i)
    \/ Return

\* every started thread keeps running (threading.Thread, daemon=False) and a
\* handler that ran returns
SpecLive ==
    /\ Init
    /\ [][LiveNext]_vars
    /\ \A i \in 1..MaxSessions : WF_vars(MonitorLive(i))
    /\ WF_vars(Return)

\* ------------------------------------------------------------ reconciliation
\* the storage outlives the controller: at start it holds no record of the
\* device, or the record of a device whose reconciliation kept failing
InitRecon ==
    /\ db \in [Keys -> {NoDevice, VeteranDevice}]
    /\ connected_devices = [k \in Keys |-> 0]
    /\ events = {}
    /\ nevents = 0
    /\ mon = <<>>
    /\ vxlan = VxInit
    /\ etherws = EwInit
    /\ alive = [k \in Keys |-> TRUE]
    /\ ret = NoReply
    /\ thr = [t \in RaceThreads |-> IdleThread]

ReconNext ==
    \/ \E k \in Keys : RegisterDevice(k)
    \/ \E k \in Keys : ExecReconciliation(k)
    \/ \E k \in Keys : KeepAlive(k)
    \/ Return

SpecRecon == InitRecon /\ [][ReconNext]_vars

\* ------------------------------- reconciliation_failed, statement by statement
\* the gRPC server runs its handlers on a thread pool (pymerang_server.py:865):
\* while one thread is inside reconciliation_failed another serves KeepAlive.
\* The thread T1 runs the ExecReconciliation of its device.
ReconThread == "T1"
ReconStatements == {"rf_state", "rf_count", "rf_ceiling"}

\* pymerang_server.py:813-839  exec_reconciliation with the flag set and a step
\* that does not return 200: the block is left and the rollback calls
\* reconciliation_failed
ReconFails(k) ==
    /\ k = RaceKey(ReconThread)
    /\ thr[ReconThread].pc = "idle"
    /\ db[k].exists
    /\ db[k].reconciliation_flag
    /\ CountedFailures(db[k].reconciliation_failures)
    /\ \E code \in {"500", "raise"} :
           thr' = [thr EXCEPT ![ReconThread].pc = "rf_state",
                              ![ReconThread].out = Status(IF code = "raise"
                                                          THEN "raised" ELSE code)]
    /\ UNCHANGED <<db, connected_devices, events, nevents, mon, vxlan, etherws,
                   alive, ret>>

\* pymerang_server.py:527-534  change_device_state(REBOOT_REQUIRED); a refused
\* write ends reconciliation_failed
RfState(k) ==
    /\ k = RaceKey(ReconThread)
    /\ thr[ReconThread].pc = "rf_state"
    /\ \E taken \in BOOLEAN :
           /\ db' = IF taken THEN [db EXCEPT ![k].state = "REBOOT_REQUIRED"] ELSE db
           /\ thr' = [thr EXCEPT ![ReconThread].pc = IF taken THEN "rf_count" ELSE "done"]
    /\ UNCHANGED <<connected_devices, events, nevents, mon, vxlan, etherws, alive, ret>>

\* pymerang_server.py:536-540  inc_and_get_reconciliation_failures
RfCount(k) ==
    /\ k = RaceKey(ReconThread)
    /\ thr[ReconThread].pc = "rf_count"
    /\ db' = [db EXCEPT ![k].reconciliation_failures = @ + 1]
    /\ thr' = [thr EXCEPT ![ReconThread].pc = "rf_ceiling"]
    /\ UNCHANGED <<connected_devices, events, nevents, mon, vxlan, etherws, alive, ret>>

\* pymerang_server.py:542-593  at the ceiling change_device_state(FAILURE),
\* which the storage may refuse; below it the two branches only log
RfCeiling(k) ==
    /\ k = RaceKey(ReconThread)
    /\ thr[ReconThread].pc = "rf_ceiling"
    /\ \E taken \in BOOLEAN :
           db' = IF db[k].reconciliation_failures >= MAX_ALLOWED_RECONCILIATION_FAILURES
                    /\ taken
                 THEN [db EXCEPT ![k].state = "FAILURE"] ELSE db
    /\ thr' = [thr EXCEPT ![ReconThread].pc = "done"]
    /\ UNCHANGED <<connected_devices, events, nevents, mon, vxlan, etherws, alive, ret>>

\* exec_reconciliation is over and the handler replies
ReconReturn ==
    /\ thr[ReconThread].pc = "done"
    /\ thr' = [thr EXCEPT ![ReconThread] = IdleThread]
    /\ UNCHANGED <<db, connected_devices, events, nevents, mon, vxlan, etherws,
                   alive, ret>>

FailingNext ==
    \/ \E k \in Keys : RegisterDevice(k)
    \/ \E k \in Keys : KeepAlive(k)
    \/ \E k \in Keys : ReconFails(k)
    \/ \E k \in Keys : RfState(k)
    \/ \E k \in Keys : RfCount(k)
    \/ \E k \in Keys : RfCeiling(k)
    \/ ReconReturn
    \/ Return

SpecFailing == InitRecon /\ [][FailingNext]_vars

\* -------------------------------------------------- restore_mgmt_interfaces
\* the management fields of a device record that restore_mgmt_interfaces reads
MgmtFields == {"external_ip", "external_port", "mgmt_mac", "vxlan_port"}

\* device.get(field) is None; the local variable has not been assigned
Absent == <<"none", NoMac>>
Unbound == <<"unbound", NoMac>>

\* the field of a record that is absent, if any
Absences == MgmtFields \cup {"nothing"}

\* the records the storage may hold for a device when the controller starts:
\* one without a tunnel mode, its management info cleared, or one with the
\* VXLAN mode and the management info of the device, a field of which may be
\* absent
PersistedRecords(k) ==
    { [NewDevice EXCEPT !.state = "WORKING"] @@ [f \in MgmtFields |-> Absent] }
    \cup
    { [NewDevice EXCEPT !.state = "WORKING", !.connected = TRUE,
                        !.tunnel_mode = "vxlan", !.mgmt = fam]
          @@ [f \in MgmtFields |->
                 IF f = absent THEN Absent
                 ELSE <<IF f = "external_ip" THEN fam ELSE f, k>>]
      : fam \in Families, absent \in Absences }

\* srv6_sdn_controller_state.get_devices(): the records in the storage's order
RestoreOrder == << <<"t1", "d1">>, <<"t1", "d2">>, <<"t2", "d1">> >>
PersistedKeys == {RestoreOrder[i] : i \in 1..Len(RestoreOrder)}
get_devices == [i \in 1..Len(RestoreOrder) |->
                   [key |-> RestoreOrder[i]] @@ db[RestoreOrder[i]]]

\* pymerang_server.py:408-444  the loop of restore_mgmt_interfaces over the
\* devices left; locals: device_external_ip, device_external_port,
\* device_vtep_mac and vxlan_port, assigned where the record has the field
\* (421-428) and not reset between two devices; calls: the creates made
RECURSIVE restore_devices(_, _, _, _)
restore_devices(vx, devices, locals, calls) ==
    IF devices = <<>> THEN [vx |-> vx, status |-> STATUS_SUCCESS, calls |-> calls]
    ELSE LET device == Head(devices)
             bound == [f \in MgmtFields |->
                          IF device[f] # Absent THEN device[f] ELSE locals[f]]
             ti == [ device_id |-> DevOf(device.key),
                     tenantid |-> TenantOf(device.key),
                     device_external_ip |-> bound.external_ip,
                     device_external_port |-> bound.external_port,
                     vxlan_port |-> bound.vxlan_port,
                     device_vtep_mac |-> bound.mgmt_mac[2] ]
         IN  IF device.tunnel_mode = "none"
             THEN restore_devices(vx, Tail(devices), locals, calls)
             ELSE IF \E f \in MgmtFields : bound[f] = Unbound
             THEN [vx |-> vx, status |-> RAISED, calls |-> calls]
             ELSE CHOOSE r \in
                      { IF c.out # STATUS_SUCCESS
                        THEN [ vx |-> c.vx, status |-> Status(c.out),
                               calls |-> Append(calls, [key |-> device.key, ti |-> ti,
                                                        out |-> c.out]) ]
                        ELSE restore_devices(c.vx, Tail(devices), bound,
                                             Append(calls, [key |-> device.key,
                                                            ti |-> ti, out |-> c.out]))
                        : c \in {VxCreate(vx, ti)} } : TRUE

\* pymerang_server.py:399-446  PymerangController.restore_mgmt_interfaces
\* readable: get_devices does not return None
restore_mgmt_interfaces(vx, devices, readable) ==
    IF ~readable THEN [vx |-> vx, status |-> "None", calls |-> <<>>]
    ELSE restore_devices(vx, devices, [f \in MgmtFields |-> Unbound], <<>>)

\* pymerang_server.py:859-863  serve: the tunnel state is new, no handler has
\* run yet, the storage holds the records of an earlier run
InitRestore ==
    /\ db \in {f \in [PersistedKeys -> UNION {PersistedRecords(k) : k \in PersistedKeys}] :
                  \A k \in PersistedKeys : f[k] \in PersistedRecords(k)}
    /\ connected_devices = [k \in Keys |-> 0]
    /\ events = {}
    /\ nevents = 0
    /\ mon = <<>>
    /\ vxlan = VxInit
    /\ etherws = EwInit
    /\ alive = [k \in Keys |-> TRUE]
    /\ ret = NoReply
    /\ thr = [t \in RaceThreads |-> IdleThread]

\* pymerang_server.py:863  self.restore_mgmt_interfaces(), once
Restore ==
    /\ Idle
    /\ \E readable \in BOOLEAN :
       \E r \in {restore_mgmt_interfaces(vxlan, get_devices, readable)} :
           /\ vxlan' = r.vx
           /\ ret' = [NoReply EXCEPT !.op = "restore_mgmt_interfaces",
                                     !.status = r.status, !.calls = r.calls]
    /\ UNCHANGED <<db, connected_devices, events, nevents, mon, etherws, alive, thr>>

RestoreNext == Restore

SpecRestore == InitRestore /\ [][RestoreNext]_vars

\* ------------------------------------------------ every NAT classification
\* the device registers and asks for a tunnel, reporting any NAT type
UpdateMgmtInfoNat(k) == UpdateMgmtInfoFrom(k, NatTypes)

NatNext ==
    \/ \E k \in Keys : RegisterDevice(k)
    \/ \E k \in Keys : UpdateMgmtInfoNat(k)
    \/ \E k \in Keys : UnregisterDevice(k)
    \/ Return

SpecNat == Init /\ [][NatNext]_vars

\* --------------------------------------------------- every handler together
\* the gRPC handlers and the keep-alive threads on a storage that may hold the
\* device's record from an earlier run
LifecycleNext ==
    \/ \E k \in Keys : RegisterDevice(k)
    \/ \E k \in Keys : UpdateMgmtInfo(k)
    \/ \E k \in Keys : UnregisterDevice(k)
    \/ \E k \in Keys : KeepAlive(k)
    \/ \E k \in Keys : ExecReconciliation(k)
    \/ \E i \in 1..MaxSessions : Monitor(i)
    \/ Return

SpecLifecycle == InitRecon /\ [][LifecycleNext]_vars

\* ------------------------------------- two handler threads inside TunnelVXLAN
\* the gRPC server runs its handlers on a thread pool (pymerang_server.py:865);
\* TunnelVXLAN takes no lock, so two handlers for two devices of one tenant
\* interleave between the statements of create/destroy_tunnel_controller_endpoint
RaceInfo(t) == TunnelInfo(RaceKey(t), "v4")

\* vxlan_utils.py:207-226  a handler enters create_tunnel_controller_endpoint
\* for a device without endpoint and tests `tenantid not in self.initiated`
RaceCreate(t) ==
    /\ thr[t].pc = "idle"
    /\ ~VxEndpoint(vxlan, RaceKey(t))
    /\ thr' = [thr EXCEPT ![t].pc = IF VxNotInitiated(vxlan, RaceInfo(t).tenantid)
                                    THEN "c_init" ELSE "c_alloc"]
    /\ UNCHANGED <<db, connected_devices, events, nevents, mon, vxlan, etherws,
                   alive, ret>>

\* vxlan_utils.py:339-346  a handler enters destroy_tunnel_controller_endpoint
\* for a device that has its endpoint
RaceDestroy(t) ==
    /\ thr[t].pc = "idle"
    /\ VxEndpoint(vxlan, RaceKey(t))
    /\ thr' = [thr EXCEPT ![t].pc = "d_neigh"]
    /\ UNCHANGED <<db, connected_devices, events, nevents, mon, vxlan, etherws,
                   alive, ret>>

\* one statement of the method the thread is in
RaceStep(t) ==
    /\ thr[t].pc \in VxStatements
    /\ \E s \in {IF thr[t].pc = "c_neigh"
                  THEN VxAddNeighFor(vxlan, RaceInfo(t), thr[t].device_vtep_ip)
                  ELSE VxStatement(thr[t].pc, vxlan, RaceInfo(t))} :
           /\ vxlan' = s.vx
           /\ thr' = [thr EXCEPT
                         ![t].pc = IF s.out = "ok" THEN VxAfter(thr[t].pc) ELSE "done",
                         ![t].out = IF s.out = "ok" THEN "none" ELSE s.out,
                         ![t].device_vtep_ip =
                             IF thr[t].pc = "c_alloc" /\ s.out = "ok"
                             THEN VxFields(s.vx, RaceInfo(t)).device_vtep_ip ELSE @]
    /\ UNCHANGED <<db, connected_devices, events, nevents, mon, etherws, alive, ret>>

\* vxlan_utils.py:371  if self.num_addresses(tenantid) == 0
RaceLast(t) ==
    /\ thr[t].pc = "d_last"
    /\ thr' = IF VxIsLast(vxlan, RaceInfo(t).tenantid)
              THEN [thr EXCEPT ![t].pc = "d_deladdr"]
              ELSE [thr EXCEPT ![t].pc = "done", ![t].out = STATUS_SUCCESS]
    /\ UNCHANGED <<db, connected_devices, events, nevents, mon, vxlan, etherws,
                   alive, ret>>

\* the method returned (or raised) and the handler is over
RaceReturn(t) ==
    /\ thr[t].pc = "done"
    /\ thr' = [thr EXCEPT ![t] = IdleThread]
    /\ UNCHANGED <<db, connected_devices, events, nevents, mon, vxlan, etherws,
                   alive, ret>>

RaceNext ==
    \E t \in RaceThreads :
        \/ RaceCreate(t)
        \/ RaceDestroy(t)
        \/ RaceStep(t)
        \/ RaceLast(t)
        \/ RaceReturn(t)

SpecRace == Init /\ [][RaceNext]_vars

\* ------------------------------------------ TunnelVXLAN for several tenants
\* the controller calls create_tunnel_controller_endpoint for a device that has
\* no endpoint (pymerang_server.py:628-645) and destroy_tunnel_controller_endpoint
\* for one that has (617-623, 752-757, 785-790), one call at a time, for the
\* devices of two tenants: the same deviceid in both, and a second device
TenantKeys == {<<"t1", "d1">>, <<"t2", "d1">>, <<"t1", "d2">>}

\* what a call of a TunnelVXLAN method left: the method, the device, the
\* address family, the value returned and the VTEP fields written
ModeReply(op, k, ext, out, fields) ==
    [NoReply EXCEPT !.op = op, !.key = k,
                    !.req = [NoRequest EXCEPT !.tunnel_name = "vxlan", !.ext = ext],
                    !.status = Status(out), !.fields = fields]

\* vxlan_utils.py:207-310  create_tunnel_controller_endpoint(tunnel_info)
CreateEndpointWith(k, ext) ==
    /\ Idle
    /\ ~VxEndpoint(vxlan, k)
    /\ \E r \in {VxCreate(vxlan, TunnelInfo(k, ext))} :
           /\ vxlan' = r.vx
           /\ ret' = ModeReply("create_tunnel_controller_endpoint", k, ext, r.out,
                               IF r.out = STATUS_SUCCESS
                               THEN VxFields(r.vx, TunnelInfo(k, ext)) ELSE NoFields)
    /\ UNCHANGED <<db, connected_devices, events, nevents, mon, etherws, alive, thr>>

CreateEndpoint(k) == \E ext \in ExternalIps : CreateEndpointWith(k, ext)

\* vxlan_utils.py:339-402  destroy_tunnel_controller_endpoint(tunnel_info)
DestroyEndpoint(k) ==
    /\ Idle
    /\ VxEndpoint(vxlan, k)
    /\ \E r \in {VxDestroy(vxlan, TunnelInfo(k, "none"))} :
           /\ vxlan' = r.vx
           /\ ret' = ModeReply("destroy_tunnel_controller_endpoint", k, "none", r.out,
                               NoFields)
    /\ UNCHANGED <<db, connected_devices, events, nevents, mon, etherws, alive, thr>>

TenantsNext ==
    \/ \E k \in TenantKeys : CreateEndpoint(k)
    \/ \E k \in TenantKeys : DestroyEndpoint(k)
    \/ Return

SpecTenants == Init /\ [][TenantsNext]_vars

\* ------------------------------------------- TunnelVXLAN's update, called
\* vxlan_utils.py:413-417  update_tunnel_controller_endpoint(tunnel_info) for a
\* device that has an endpoint; calls: the methods it called in turn
UpdateEndpointWith(k, ext) ==
    /\ Idle
    /\ VxEndpoint(vxlan, k)
    /\ \E r \in {VxUpdate(vxlan, TunnelInfo(k, ext))} :
           /\ vxlan' = r.vx
           /\ ret' = [ModeReply("update_tunnel_controller_endpoint", k, ext, r.out,
                                IF r.out = STATUS_SUCCESS
                                THEN VxFields(r.vx, TunnelInfo(k, ext)) ELSE NoFields)
                          EXCEPT !.calls =
                              IF VxDestroy(vxlan, TunnelInfo(k, ext)).out = STATUS_SUCCESS
                              THEN <<"destroy_tunnel_controller_endpoint",
                                     "create_tunnel_controller_endpoint">>
                              ELSE <<"destroy_tunnel_controller_endpoint">>]
    /\ UNCHANGED <<db, connected_devices, events, nevents, mon, etherws, alive, thr>>

UpdateEndpoint(k) == \E ext \in ExternalIps : UpdateEndpointWith(k, ext)

UpdateNext ==
    \/ \E k \in TenantKeys : CreateEndpoint(k)
    \/ \E k \in TenantKeys : DestroyEndpoint(k)
    \/ \E k \in TenantKeys : UpdateEndpoint(k)
    \/ Return

SpecUpdate == Init /\ [][UpdateNext]_vars

\* ------------------------------------------------ both tunnel modes, called
\* the same calls with TunnelEtherWs beside TunnelVXLAN
EwReply(op, k, ext, out) ==
    [ModeReply(op, k, ext, out, NoFields) EXCEPT !.req.tunnel_name = "etherws"]

\* etherws_utils.py:182-215  create_tunnel_controller_endpoint(tunnel_info)
EwCreateEndpointWith(k, ext) ==
    /\ Idle
    /\ DevOf(k) \notin etherws.taps
    /\ etherws.nets < MaxNets
    /\ \E r \in {EwCreate(etherws, TunnelInfo(k, ext))} :
           /\ etherws' = r.vx
           /\ ret' = EwReply("create_tunnel_controller_endpoint", k, ext, r.out)
    /\ UNCHANGED <<db, connected_devices, events, nevents, mon, vxlan, alive, thr>>

EwCreateEndpoint(k) == \E ext \in ExternalIps : EwCreateEndpointWith(k, ext)

\* etherws_utils.py:223-225  destroy_tunnel_controller_endpoint(tunnel_info)
EwDestroyEndpoint(k) ==
    /\ Idle
    /\ DevOf(k) \in etherws.taps
    /\ \E r \in {EwDestroy(etherws, TunnelInfo(k, "none"))} :
           /\ etherws' = r.vx
           /\ ret' = EwReply("destroy_tunnel_controller_endpoint", k, "none", r.out)
    /\ UNCHANGED <<db, connected_devices, events, nevents, mon, vxlan, alive, thr>>

ModesNext ==
    \/ \E k \in TenantKeys : CreateEndpoint(k)
    \/ \E k \in TenantKeys : DestroyEndpoint(k)
    \/ \E k \in TenantKeys : EwCreateEndpoint(k)
    \/ \E k \in TenantKeys : EwDestroyEndpoint(k)
    \/ Return

SpecModes == Init /\ [][ModesNext]_vars

\* ================================================================ properties
\* the requests an UpdateMgmtInfo may carry
Requests ==
    [tunnel_name : TunnelNames, ext : ExternalIps, nat_type : ReportedNatTypes]

\* what the storage holds of the device's tunnel
Persisted(k) ==
    [ tunnel_mode |-> db[k].tunnel_mode, connected |-> db[k].connected,
      state |-> db[k].state, mgmt |-> db[k].mgmt ]

\* the controller endpoints that are live in the two modes
LiveEndpoints == [ vxlan |-> vxlan.fdb, etherws |-> etherws.taps ]

\* the reconciliation bookkeeping of a device record
Bookkeeping(k) ==
    [ exists |-> db[k].exists, state |-> db[k].state,
      flag |-> db[k].reconciliation_flag,
      failures |-> db[k].reconciliation_failures ]

\* the key's keep-alive threads that have not ended
LiveMonitors(k) == {i \in 1..Len(mon) : mon[i].key = k /\ mon[i].pc # "done"}

C2_LateCallbackHarmless ==
    [][\A i \in 1..MaxSessions : \A fail \in {"none", "set_device_connected_flag"} :
          ( /\ MonitorCallbackWith(i, fail)
            /\ mon[i].session \in events
            /\ connected_devices[mon[i].key] \notin {0, mon[i].session}
            /\ db[mon[i].key].connected
            /\ VxEndpoint(vxlan, mon[i].key) )
              => /\ db'[mon[i].key].connected
                 /\ VxEndpoint(vxlan', mon[i].key)
                 /\ db'[mon[i].key].tunnel_mode = db[mon[i].key].tunnel_mode
                 /\ db'[mon[i].key].mgmt = db[mon[i].key].mgmt
                 /\ connected_devices'[mon[i].key] = connected_devices[mon[i].key]]_vars

\* the callback of a cancelled session has run against the session that
\* replaced it: the replacing thread still runs, its entry is gone
C2_Witness ==
    /\ ret.op = "device_disconnected"
    /\ ret.status = STATUS_SUCCESS
    /\ \E i \in 1..Len(mon) : \E j \in 1..Len(mon) :
         /\ mon[i].key = ret.key /\ mon[j].key = ret.key
         /\ mon[i].fired = 1 /\ mon[i].session \in events
         /\ mon[j].session \notin events /\ mon[j].pc # "done"
    /\ connected_devices[ret.key] = 0
    /\ ~db[ret.key].connected

\* C3 as stated: in every reachable state at most one keep-alive monitor of
\* a key is live (the prior one has ended before the new one is started).
C3_OneLiveMonitor ==
    \A k \in Keys : Cardinality(LiveMonitors(k)) <= 1

\* C5: after update_mgmt_info returns SUCCESS the persisted tunnel mode is the
\* requested name, the connected flag is true, the state is WORKING, the
\* device has exactly one controller endpoint in the named mode, an unset
\* Event is registered under the key with a running thread on it when the
\* mode requires keep-alives, and the VTEP fields returned are those the
\* mode's create_tunnel_controller_endpoint produced.
C5_SuccessPostconditions ==
    \A k \in Keys :
        (ret.op = "UpdateMgmtInfo" /\ ret.key = k /\ ret.status = STATUS_SUCCESS)
            => /\ db[k].tunnel_mode = ret.req.tunnel_name
               /\ ret.req.tunnel_name \in tunnel_modes
               /\ db[k].connected
               /\ db[k].state = "WORKING"
               /\ ret.device_state = "WORKING"
               /\ ret.req.tunnel_name = "vxlan" =>
                      Cardinality({e \in vxlan.fdb : e.lladdr = k}) = 1
               /\ ret.req.tunnel_name = "etherws" => DevOf(k) \in etherws.taps
               /\ connected_devices[k] # 0
               /\ connected_devices[k] \notin events
               /\ require_keep_alive_messages(ret.req.tunnel_name) =>
                      \E i \in LiveMonitors(k) : mon[i].session = connected_devices[k]
               /\ ret.fields # NoFields
               /\ ret.req.tunnel_name = "vxlan" =>
                      ret.fields = VxFields(vxlan, TunnelInfo(k, ret.req.ext))

\* a second UpdateMgmtInfo of the device returned SUCCESS
C5_Witness ==
    /\ ret.op = "UpdateMgmtInfo"
    /\ ret.status = STATUS_SUCCESS
    /\ nevents = 2
    /\ VxEndpoint(vxlan, ret.key)

C9_UnregisterEndsSession ==
    \A k \in Keys :
        (ret.op = "UnregisterDevice" /\ ret.key = k /\ ret.status = STATUS_SUCCESS)
            => /\ ~VxEndpoint(vxlan, k)
               /\ connected_devices[k] = 0
               /\ \A i \in LiveMonitors(k) : mon[i].session \in events

\* the callback of the device's monitor ran after the device was unregistered
\* and found the endpoint gone
C9_Witness ==
    /\ ret.op = "device_disconnected"
    /\ ret.status = RAISED
    /\ db[ret.key].tunnel_mode = "vxlan"
    /\ ~VxEndpoint(vxlan, ret.key)
    /\ connected_devices[ret.key] # 0

\* the two handler threads that are inside the statements that create, or
\* remove, the tenant's shared VXLAN link
CreatingLink == {t \in RaceThreads : thr[t].pc \in {"c_init", "c_link", "c_up"}}
RemovingLink == {t \in RaceThreads : thr[t].pc \in {"d_deladdr", "d_rmlink", "d_reltenant"}}

\* C4 as stated: with create_tunnel_controller_endpoint running concurrently
\* for two devices of one tenant the shared link is created exactly once (one
\* call creates it, and finds it absent), no call installs a forwarding or
\* neighbour entry before the link exists, is up and has its addresses; with
\* destroy_tunnel_controller_endpoint running concurrently for the last two
\* devices the link is removed exactly once (one call removes it, and finds it).
C4_SharedLinkOnce ==
    /\ Cardinality(CreatingLink) <= 1
    /\ \A t \in RaceThreads : thr[t].pc = "c_link" => vxlan.link = "absent"
    /\ \A t \in RaceThreads :
          thr[t].pc \in {"c_fdb", "c_neigh"} =>
              /\ vxlan.link = "up"
              /\ {a[1] : a \in vxlan.addrs} = Families
    /\ Cardinality(RemovingLink) <= 1
    /\ \A t \in RaceThreads : thr[t].pc = "d_rmlink" => vxlan.link # "absent"
    /\ \A t \in RaceThreads : thr[t].pc = "done" => thr[t].out = STATUS_SUCCESS

\* a handler is about to install its forwarding entry while the handler that
\* marked the tenant as initiated has not created the link yet
C4_Witness ==
    \E t \in RaceThreads : \E u \in RaceThreads :
        /\ thr[t].pc = "c_fdb"
        /\ thr[u].pc = "c_link"
        /\ vxlan.link = "absent"

TornDown(k) ==
    /\ ~db[k].connected
    /\ ~VxEndpoint(vxlan, k)
    /\ db[k].state = "WORKING"

FailedAttempt(k, nb) ==
    /\ db[k].reconciliation_flag
    /\ \E i \in 1..3 : nb[i] # "200"

C11_FailureTerminal ==
    [][\A k \in Keys : db[k].state = "FAILURE" => db'[k].state = "FAILURE"]_vars

\* a device whose failure counter is at the ceiling is WORKING after an
\* UpdateMgmtInfo
C11_Witness ==
    /\ ret.op = "UpdateMgmtInfo"
    /\ ret.status = STATUS_SUCCESS
    /\ db[ret.key].state = "WORKING"
    /\ db[ret.key].reconciliation_failures >= MAX_ALLOWED_RECONCILIATION_FAILURES

\* what the controller holds besides the storage: the keep-alive sessions and
\* the tunnel modes' objects
Runtime == <<connected_devices, events, nevents, mon, vxlan, etherws>>

\* C12 as stated: on a failed reconciliation attempt whose resulting failure
\* count is below the ceiling the device state becomes REBOOT_REQUIRED and the
\* counter grows by exactly one, whatever the reboot policy of the device; the
\* controller does nothing else and never sets REBOOTING.
C12_RebootRequiredBelowCeiling ==
    [][\A k \in Keys : \A nb \in NbOutcomes : \A fail \in ReconFailures :
       \A can_reboot \in BOOLEAN :
          ( /\ ExecReconciliationWith(k, nb, fail, can_reboot)
            /\ FailedAttempt(k, nb)
            /\ db'[k].reconciliation_failures < MAX_ALLOWED_RECONCILIATION_FAILURES )
              => /\ db' = [db EXCEPT ![k].state = "REBOOT_REQUIRED",
                                      ![k].reconciliation_failures = @ + 1]
                 /\ UNCHANGED Runtime]_vars

\* C12 amended: on a failed reconciliation attempt whose resulting failure
\* count is below the ceiling, when the storage takes the write of
\* REBOOT_REQUIRED the device state becomes REBOOT_REQUIRED and the counter
\* grows by exactly one, whatever the reboot policy of the device, and nothing
\* else changes (the state is never REBOOTING); when the storage refuses that
\* write the attempt changes nothing, the counter included.
C12_RebootRequiredWritten ==
    [][\A k \in Keys : \A nb \in NbOutcomes : \A fail \in ReconFailures :
       \A can_reboot \in BOOLEAN :
          ( /\ ExecReconciliationWith(k, nb, fail, can_reboot)
            /\ FailedAttempt(k, nb)
            /\ db'[k].reconciliation_failures < MAX_ALLOWED_RECONCILIATION_FAILURES )
              => /\ db' = IF fail = "change_device_state" THEN db
                          ELSE [db EXCEPT ![k].state = "REBOOT_REQUIRED",
                                          ![k].reconciliation_failures = @ + 1]
                 /\ db'[k].state # "REBOOTING"
                 /\ UNCHANGED Runtime]_vars

\* a reconciliation attempt of a re-registered device failed for the second time
C12_Witness ==
    /\ ret.op = "ExecReconciliation"
    /\ ret.status = "500"
    /\ ret.calls[Len(ret.calls)] = "reconciliation_failed"
    /\ db[ret.key].state = "REBOOT_REQUIRED"
    /\ db[ret.key].reconciliation_failures = 2

\* the handler whose result is pending made the call
Made(call) == \E i \in 1..Len(ret.calls) : ret.calls[i] = call

\* the three northbound steps all answer 200
AllSteps200 == [i \in 1..3 |-> "200"]

\* C13: when ExecReconciliation runs with the reconciliation flag set and the
\* three steps return 200, then, the counter reset being taken by the storage,
\* afterwards the flag is false, the failure counter is zero, the rollback
\* action reconciliation_failed was not invoked (the device state is the one
\* before the call) and the call returns SUCCESS.
C13_ReconciliationSucceeds ==
    [][\A k \in Keys : \A can_reboot \in BOOLEAN :
       \A fail \in ReconFailures \ {"reset_reconciliation_failures"} :
          ( /\ ExecReconciliationWith(k, AllSteps200, fail, can_reboot)
            /\ db[k].reconciliation_flag )
              => /\ ~db'[k].reconciliation_flag
                 /\ db'[k].reconciliation_failures = 0
                 /\ ~Made("reconciliation_failed")'
                 /\ db'[k].state = db[k].state
                 /\ ret'.status = STATUS_SUCCESS
                 /\ \A i \in 1..3 : Made(ReconciliationSteps[i])'
                 /\ UNCHANGED Runtime]_vars

\* the reconciliation of a device that had failed before went through
C13_Witness ==
    /\ ret.op = "ExecReconciliation"
    /\ ret.status = STATUS_SUCCESS
    /\ Made("overlay_reconciliation")
    /\ db[ret.key].state = "REBOOT_REQUIRED"
    /\ ~db[ret.key].reconciliation_flag
    /\ db[ret.key].reconciliation_failures = 0

\* C14: ExecReconciliation calls the reconciliation steps only when the
\* persisted reconciliation flag of the device is set; when it is not set it
\* calls none of prepare_db_for_device_reconciliation, device_reconciliation
\* and overlay_reconciliation, does not invoke reconciliation_failed, changes
\* neither the flag nor the device state, and only resets the failure counter.
C14_StepsOnlyWhenFlagged ==
    [][\A k \in Keys : \A nb \in NbOutcomes : \A fail \in ReconFailures :
       \A can_reboot \in BOOLEAN :
          ExecReconciliationWith(k, nb, fail, can_reboot)
              => /\ (\E i \in 1..3 : Made(ReconciliationSteps[i])')
                        => db[k].reconciliation_flag
                 /\ ~db[k].reconciliation_flag
                        => /\ \A i \in 1..3 : ~Made(ReconciliationSteps[i])'
                           /\ ~Made("reconciliation_failed")'
                           /\ Made("reset_reconciliation_failures")'
                           /\ db' = [db EXCEPT ![k].reconciliation_failures =
                                         IF fail = "reset_reconciliation_failures"
                                         THEN @ ELSE 0]
                           /\ UNCHANGED Runtime]_vars

\* ExecReconciliation ran for a device in REBOOT_REQUIRED whose flag is not
\* set: it asked for the flag and reset the counter
C14_Witness ==
    /\ ret.op = "ExecReconciliation"
    /\ ret.status = STATUS_SUCCESS
    /\ ret.calls = <<"get_device_reconciliation_flag", "reset_reconciliation_failures">>
    /\ db[ret.key].state = "REBOOT_REQUIRED"
    /\ ~db[ret.key].reconciliation_flag

\* C15: RegisterDevice with a token that fails the authentication returns
\* UNAUTHORIZED and changes no state: no record is created, no reconciliation
\* flag is set, and the tenant configuration is neither read nor returned.
C15_UnauthorizedChangesNothing ==
    [][\A k \in Keys : \A config \in TenantConfigs :
          RegisterDeviceWith(k, "none", config)
              => /\ ret'.status = STATUS_UNAUTHORIZED
                 /\ db' = db
                 /\ UNCHANGED Runtime
                 /\ ret'.calls = <<"authenticate_device">>
                 /\ ret'.vxlan_port = 0
                 /\ ret'.tenantid = "none"
                 /\ ret'.device_state = "none"]_vars

\* a registration was refused for a device that has no record
C15_Witness ==
    /\ ret.op = "RegisterDevice"
    /\ ret.status = STATUS_UNAUTHORIZED
    /\ ~db[ret.key].exists

\* C16: an authenticated RegisterDevice of a device that exists sets the
\* reconciliation flag and leaves the rest of the record as it is (state,
\* connected flag, tunnel mode, management info, failure counter); of a device
\* that does not exist it creates the record, with the flag not set.  The flag
\* of a device becomes true only in such a re-registration.
C16_ReRegistrationSetsFlag ==
    [][/\ \A k \in Keys : \A config \in TenantConfigs :
             RegisterDeviceWith(k, TenantOf(k), config)
                 => /\ db' = IF db[k].exists
                             THEN [db EXCEPT ![k].reconciliation_flag = TRUE]
                             ELSE [db EXCEPT ![k] = NewDevice]
                    /\ ~db[k].exists => ~db'[k].reconciliation_flag
                    /\ UNCHANGED Runtime
       /\ \A k \in Keys :
             (~db[k].reconciliation_flag /\ db'[k].reconciliation_flag)
                 => /\ db[k].exists
                    /\ ret'.op = "RegisterDevice"
                    /\ ret'.key = k
                    /\ ret'.status # STATUS_UNAUTHORIZED]_vars

\* a working device with its tunnel up has registered again
C16_Witness ==
    /\ ret.op = "RegisterDevice"
    /\ ret.status = STATUS_SUCCESS
    /\ db[ret.key].reconciliation_flag
    /\ db[ret.key].state = "WORKING"
    /\ db[ret.key].connected
    /\ db[ret.key].tunnel_mode = "vxlan"
    /\ VxEndpoint(vxlan, ret.key)

C18_UnknownModeRejected ==
    [][\A k \in Keys : \A a \in Requests : \A fail \in UpdateFailures :
          (UpdateMgmtInfoWith(k, a, fail) /\ a.tunnel_name \notin tunnel_modes)
              => /\ ret'.status = STATUS_INTERNAL_ERROR
                 /\ LiveEndpoints' = LiveEndpoints
                 /\ mon' = mon
                 /\ db'[k].state = db[k].state
                 /\ db'[k].connected = db[k].connected
                 /\ db'[k].tunnel_mode = db[k].tunnel_mode]_vars

\* a working device named an unknown mode: the lookup raised after its tunnel
\* had been destroyed
C18_Witness ==
    /\ ret.op = "UpdateMgmtInfo"
    /\ ret.req.tunnel_name \notin tunnel_modes
    /\ ret.status = RAISED
    /\ ret.calls = <<"destroy_tunnel_controller_endpoint", "set_tunnel_mode">>
    /\ db[ret.key].state = "WORKING"
    /\ db[ret.key].connected
    /\ db[ret.key].tunnel_mode = "none"
    /\ ~VxEndpoint(vxlan, ret.key)

\* the modes in which the device has a live controller endpoint
Endpoints(k) ==
    {m \in tunnel_modes : IF m = "vxlan" THEN VxEndpoint(vxlan, k)
                          ELSE DevOf(k) \in etherws.taps}

\* an update_mgmt_info of a device whose persisted tunnel mode is set destroys
\* the old endpoint and clears the persisted mode before it creates; when the
\* teardown fails it creates nothing
TeardownBeforeCreate ==
    \A k \in Keys : \A a \in Requests : \A fail \in UpdateFailures :
        (UpdateMgmtInfoWith(k, a, fail) /\ db[k].tunnel_mode # "none")
            => /\ ret'.calls[1] = "destroy_tunnel_controller_endpoint"
               /\ Made("create_tunnel_controller_endpoint")'
                     => /\ SubSeq(ret'.calls, 1, 3) =
                              << "destroy_tunnel_controller_endpoint", "set_tunnel_mode",
                                 "create_tunnel_controller_endpoint" >>
                        /\ db'[k].tunnel_mode \in {"none", a.tunnel_name}
               /\ Len(ret'.calls) = 1
                     => /\ ret'.status # STATUS_SUCCESS
                        /\ vxlan'.fdb \subseteq vxlan.fdb
                        /\ etherws' = etherws
                        /\ mon' = mon
                        /\ db' = db

\* C19 as stated: update_mgmt_info of a device whose persisted tunnel mode is
\* set destroys the endpoint of the old mode and clears the persisted mode
\* before it creates the endpoint of the requested mode, and creates nothing
\* when the teardown fails; so a device never has two live controller
\* endpoints at once.
C19_NeverTwoEndpoints ==
    /\ [][TeardownBeforeCreate]_vars
    /\ [](\A k \in Keys : Cardinality(Endpoints(k)) <= 1)

\* the device has a live endpoint in both modes after a successful update
C19_Witness ==
    /\ ret.op = "UpdateMgmtInfo"
    /\ ret.status = STATUS_SUCCESS
    /\ Endpoints(ret.key) = tunnel_modes

\* the handlers of the gRPC service
Handlers ==
    {"RegisterDevice", "UpdateMgmtInfo", "UnregisterDevice", "KeepAlive",
     "ExecReconciliation"}

\* C20 as stated: every reply of RegisterDevice, UpdateMgmtInfo,
\* UnregisterDevice, KeepAlive and ExecReconciliation (a handler that raises
\* sends none) carries a status in {SUCCESS, UNAUTHORIZED, INTERNAL_ERROR},
\* also when a reconciliation step returns a code other than 200 and when a
\* tunnel mode's create or destroy returns a non-success result.
C20_StatusInSet ==
    (ret.op \in Handlers /\ ret.status # RAISED)
        => ret.status \in {STATUS_SUCCESS, STATUS_UNAUTHORIZED, STATUS_INTERNAL_ERROR}

\* the reply of an ExecReconciliation whose second step answered 500
C20_Witness ==
    /\ ret.op = "ExecReconciliation"
    /\ ret.status = "500"
    /\ Made("device_reconciliation")
    /\ ~Made("overlay_reconciliation")
    /\ ret.device_state = "REBOOT_REQUIRED"

\* C21 (mode capability filtering): an UpdateMgmtInfo that reports a NAT type
\* outside VXLAN's supported_nat_types is never answered with success for the
\* vxlan mode, returns no VTEP parameters and leaves no VXLAN controller
\* endpoint of the device; the descriptors are {OPEN, FULL_CONE,
\* RESTRICTED_CONE, RESTRICTED_PORT} for VXLAN and every classification except
\* BLOCKED for Ethernet-over-websocket.
C21_CapabilityFiltering ==
    /\ supported_nat_types("vxlan")
           = {"OPEN", "FULL_CONE", "RESTRICTED_CONE", "RESTRICTED_PORT"}
    /\ supported_nat_types("etherws") = NatTypes \ {"BLOCKED"}
    /\ (/\ ret.op = "UpdateMgmtInfo"
        /\ ret.req.tunnel_name = "vxlan"
        /\ ret.req.nat_type \notin supported_nat_types("vxlan"))
       => /\ ret.status # STATUS_SUCCESS
          /\ ret.fields = NoFields
          /\ ~VxEndpoint(vxlan, ret.key)

\* a device that reported SYMMETRIC holds a VXLAN endpoint and was sent the
\* VTEP parameters
C21_Witness ==
    /\ ret.op = "UpdateMgmtInfo"
    /\ ret.req.tunnel_name = "vxlan"
    /\ ret.req.nat_type = "SYMMETRIC"
    /\ ret.status = STATUS_SUCCESS
    /\ ret.fields # NoFields
    /\ VxEndpoint(vxlan, ret.key)
    /\ db[ret.key].tunnel_mode = "vxlan"

\* the devices of the two handler threads
RaceKeys == {RaceKey(t) : t \in RaceThreads}

\* the VTEP addresses a device holds: the one its neighbour entry carries and
\* the ones the tenant's tables record for it
VtepAddresses(k) ==
    {e.dst : e \in {n \in vxlan.neigh : n.lladdr = k}}
    \cup {a \in {get_device_mgmtipv4(vxlan, VxTenantId(TenantOf(k)), DevOf(k)),
                 get_device_mgmtipv6(vxlan, VxTenantId(TenantOf(k)), DevOf(k))} :
              a[1] # "none"}

\* the controller's own VTEP addresses (slot 0) of a tenant
ControllerAddresses(tenantid) ==
    {a \in {get_device_mgmtipv4(vxlan, VxTenantId(tenantid), CtrlSlot),
            get_device_mgmtipv6(vxlan, VxTenantId(tenantid), CtrlSlot)} :
        a[1] # "none"}

\* the devices with a live endpoint hold pairwise distinct VTEP addresses,
\* none of them the controller's
UniqueAddresses ==
    \A k \in RaceKeys :
        VxEndpoint(vxlan, k) =>
            /\ VtepAddresses(k) \cap ControllerAddresses(TenantOf(k)) = {}
            /\ \A j \in RaceKeys \ {k} :
                   VxEndpoint(vxlan, j) => VtepAddresses(k) \cap VtepAddresses(j) = {}

\* a statement of destroy_tunnel_controller_endpoint leaves the addresses of
\* the other device as they are
ReleasesOwnAddress(t) ==
    (RaceStep(t) /\ thr[t].pc \in {"d_neigh", "d_fdb", "d_release", "d_deladdr",
                                    "d_rmlink", "d_reltenant"})
    => \A k \in RaceKeys \ {RaceKey(t)} :
           /\ vxlan'.ip4[VxTenantId(TenantOf(k))][DevOf(k)]
                  = vxlan.ip4[VxTenantId(TenantOf(k))][DevOf(k)]
           /\ vxlan'.ip6[VxTenantId(TenantOf(k))][DevOf(k)]
                  = vxlan.ip6[VxTenantId(TenantOf(k))][DevOf(k)]

\* C22 (allocation uniqueness): in every reachable state the device VTEP
\* addresses of the devices with a live controller endpoint are pairwise
\* distinct and distinct from the controller's slot-0 address, under any
\* interleaving of create and destroy; destroying one device's endpoint
\* releases only that device's address and leaves every other device's alone.
C22_AllocationUnique ==
    /\ []UniqueAddresses
    /\ [][\A t \in RaceThreads : ReleasesOwnAddress(t)]_vars

\* both devices have their forwarding entry and hold the same VTEP address
C22_Witness ==
    /\ \A k \in RaceKeys : VxEndpoint(vxlan, k)
    /\ \E k \in RaceKeys : \E j \in RaceKeys \ {k} :
           VtepAddresses(k) \cap VtepAddresses(j) # {}

\* what the VXLAN link carries for a device: its forwarding and neighbour entries
InstalledFor(k) ==
    [ fdb |-> {e \in vxlan.fdb : e.lladdr = k},
      neigh |-> {e \in vxlan.neigh : e.lladdr = k} ]

\* the devices of the other tenants
OtherTenants(k) == {j \in TenantKeys : TenantOf(j) # TenantOf(k)}

\* a device's record of its VTEP MAC
RecordedMac(k) == vxlan.mac[DevOf(k)]

\* C23 (tenant isolation): a create or destroy for a device of tenant A leaves
\* the forwarding and neighbour entries and the VTEP MAC record of every device
\* of another tenant as they are (so the destroy of A's last device does not
\* remove the link B's devices use), and two devices of different tenants that
\* have endpoints hold their own VTEP MAC record and disjoint VTEP addresses,
\* also when they carry the same deviceid.
C23_TenantIsolation ==
    /\ [](\A k \in TenantKeys : \A j \in OtherTenants(k) :
             (VxEndpoint(vxlan, k) /\ VxEndpoint(vxlan, j)) =>
                 /\ RecordedMac(k) = k
                 /\ VtepAddresses(k) \cap VtepAddresses(j) = {})
    /\ [][\A k \in TenantKeys :
             (CreateEndpoint(k) \/ DestroyEndpoint(k)) =>
                 \A j \in OtherTenants(k) :
                     VxEndpoint(vxlan, j) =>
                         /\ InstalledFor(j)' = InstalledFor(j)
                         /\ RecordedMac(j)' = RecordedMac(j)]_vars

\* the destroy for t1's device d1 returned success: it removed the forwarding
\* entry of t2's device d1 and left its own
C23_Witness ==
    /\ ret.op = "destroy_tunnel_controller_endpoint"
    /\ ret.key = <<"t1", "d1">>
    /\ ret.status = STATUS_SUCCESS
    /\ VxEndpoint(vxlan, <<"t1", "d1">>)
    /\ ~VxEndpoint(vxlan, <<"t2", "d1">>)
    /\ RecordedMac(<<"t2", "d1">>) = <<"t2", "d1">>

\* TunnelVXLAN holds nothing: no tenant marked, no address table, no link
VxTornDown ==
    /\ vxlan.initiated = {}
    /\ vxlan.pools = {}
    /\ \A t \in VxTenants : vxlan.ip4[t] = EmptyPool /\ vxlan.ip6[t] = EmptyPool
    /\ vxlan.link = "absent"
    /\ vxlan.addrs = {} /\ vxlan.fdb = {} /\ vxlan.neigh = {}

\* the slots of a tenant's tables that hold an address
Allocated(t) ==
    [ v4 |-> {s \in Slots : vxlan.ip4[t][s] # NoAddr},
      v6 |-> {s \in Slots : vxlan.ip6[t][s] # NoAddr} ]

\* the device is the last of its tenant that has an endpoint
LastOfTenant(k) ==
    \A j \in TenantKeys \ {k} : TenantOf(j) = TenantOf(k) => ~VxEndpoint(vxlan, j)

\* the device's slot is the last that holds an address in the table
\* TunnelVXLAN keeps for the device's tenant
LastSlot(k) ==
    \A s \in DevIds \ {DevOf(k)} :
        /\ vxlan.ip4[VxTenantId(TenantOf(k))][s] = NoAddr
        /\ vxlan.ip6[VxTenantId(TenantOf(k))][s] = NoAddr

\* a create with a valid address on a TunnelVXLAN that holds nothing succeeds,
\* brings the link up with the controller's two addresses and leaves exactly
\* the controller's and the device's address allocated
Rebuilt(k, ext) ==
    (CreateEndpointWith(k, ext) /\ VxTornDown) =>
        /\ ret'.status = STATUS_SUCCESS
        /\ vxlan'.link = "up"
        /\ vxlan'.initiated = {VxTenantId(TenantOf(k))}
        /\ Allocated(VxTenantId(TenantOf(k)))'
               = [ v4 |-> IF ext = "v4" THEN {CtrlSlot, DevOf(k)} ELSE {CtrlSlot},
                   v6 |-> IF ext = "v6" THEN {CtrlSlot, DevOf(k)} ELSE {CtrlSlot} ]
        /\ vxlan'.addrs = {<<"v4", vxlan'.ip4[VxTenantId(TenantOf(k))][CtrlSlot]>>,
                           <<"v6", vxlan'.ip6[VxTenantId(TenantOf(k))][CtrlSlot]>>}
        /\ vxlan'.fdb = InstalledFor(k)'.fdb
        /\ vxlan'.neigh = InstalledFor(k)'.neigh

C25_KeepAlivePureRead ==
    [][\A k \in Keys :
          KeepAlive(k) =>
              /\ ret'.op = "KeepAlive" /\ ret'.key = k
              /\ ret'.status = IF db[k].exists THEN STATUS_SUCCESS
                               ELSE STATUS_INTERNAL_ERROR
              /\ ret'.device_state = IF db[k].exists THEN db[k].state ELSE "none"
              /\ db' = db
              /\ LiveEndpoints' = LiveEndpoints
              /\ vxlan' = vxlan /\ etherws' = etherws
              /\ connected_devices' = connected_devices
              /\ events' = events /\ nevents' = nevents
              /\ mon' = mon]_vars

\* a KeepAlive of the device was answered with success while its keep-alive
\* thread is one lost probe away from the callback
C25_Witness ==
    /\ ret.op = "KeepAlive"
    /\ ret.status = STATUS_SUCCESS
    /\ ret.device_state = "WORKING"
    /\ \E i \in 1..Len(mon) :
           /\ mon[i].key = ret.key
           /\ mon[i].session = connected_devices[ret.key]
           /\ mon[i].session \notin events
           /\ mon[i].lost = MaxKeepAliveLost - 1
           /\ mon[i].pc \in {"wait", "probe"}

\* the positions of a call in a sequence of calls
Positions(calls, call) == {i \in 1..Len(calls) : calls[i] = call}

\* a is called, and every call of b comes after a call of a
Precedes(calls, a, b) ==
    \A j \in Positions(calls, b) : \E i \in Positions(calls, a) : i < j

\* C26 (reconciliation step ordering): in an ExecReconciliation with the flag
\* set, device_reconciliation is called only after
\* prepare_db_for_device_reconciliation returned 200 and overlay_reconciliation
\* only after device_reconciliation returned 200; after the first step that
\* does not return 200 no later step is called and the flag is not cleared.
C26_StepOrdering ==
    [][\A k \in Keys : \A nb \in NbOutcomes : \A fail \in ReconFailures :
          \A can_reboot \in BOOLEAN :
              (ExecReconciliationWith(k, nb, fail, can_reboot)
                   /\ db[k].reconciliation_flag)
              => /\ \A i \in 1..3 :
                        Cardinality(Positions(ret'.calls, ReconciliationSteps[i])) <= 1
                 /\ \A i \in 2..3 :
                        Made(ReconciliationSteps[i])' =>
                            /\ nb[i - 1] = "200"
                            /\ Made(ReconciliationSteps[i - 1])'
                            /\ Precedes(ret'.calls, ReconciliationSteps[i - 1],
                                        ReconciliationSteps[i])
                 /\ \A i \in 1..3 :
                        nb[i] # "200" =>
                            /\ \A j \in (i + 1)..3 : ~Made(ReconciliationSteps[j])'
                            /\ ~Made("set_device_reconciliation_flag")'
                            /\ db'[k].reconciliation_flag]_vars

\* device_reconciliation was called after prepare_db_for_device_reconciliation
\* and did not return 200: overlay_reconciliation was not called, the flag is set
C26_Witness ==
    /\ ret.op = "ExecReconciliation"
    /\ ret.status = "500"
    /\ Positions(ret.calls, "prepare_db_for_device_reconciliation") = {3}
    /\ Positions(ret.calls, "device_reconciliation") = {4}
    /\ Positions(ret.calls, "overlay_reconciliation") = {}
    /\ db[ret.key].reconciliation_flag

\* C27 (rollback discipline): in every ExecReconciliation with the flag set,
\* reconciliation_failed is registered on the rollback before the first step,
\* it is invoked exactly once if a step returns a code other than 200 or
\* raises, and not at all if and only if the three steps returned 200.
C27_RollbackDiscipline ==
    [][\A k \in Keys : \A nb \in NbOutcomes : \A fail \in ReconFailures :
          \A can_reboot \in BOOLEAN :
              (ExecReconciliationWith(k, nb, fail, can_reboot)
                   /\ db[k].reconciliation_flag)
              => /\ Cardinality(Positions(ret'.calls, "rollback.push")) = 1
                 /\ \A i \in 1..3 :
                        Precedes(ret'.calls, "rollback.push", ReconciliationSteps[i])
                 /\ Precedes(ret'.calls, "rollback.push", "reconciliation_failed")
                 /\ Cardinality(Positions(ret'.calls, "reconciliation_failed"))
                        = IF nb = AllSteps200 THEN 0 ELSE 1
                 /\ nb # AllSteps200 =>
                        /\ ret'.calls[Len(ret'.calls)] = "reconciliation_failed"
                        /\ \E w \in {reconciliation_failed(World, k, fail, can_reboot)} :
                               db' = w.db
                 /\ nb = AllSteps200 => Made("rollback.commitAll")']_vars

\* the second step raised: reconciliation_failed ran once, after the step, and
\* counted the failure
C27_Witness ==
    /\ ret.op = "ExecReconciliation"
    /\ ret.status = RAISED
    /\ Positions(ret.calls, "rollback.push") = {2}
    /\ Positions(ret.calls, "device_reconciliation") = {4}
    /\ Positions(ret.calls, "reconciliation_failed") = {5}
    /\ db[ret.key].state = "REBOOT_REQUIRED"
    /\ db[ret.key].reconciliation_failures = 1

\* the devices that have a live endpoint in the tenant TunnelVXLAN keeps them in
LiveDevices(t) ==
    {k \in TenantKeys : VxTenantId(TenantOf(k)) = t /\ VxEndpoint(vxlan, k)}

\* the tenant's shared objects exist: the VXLAN link and the controller's
\* VTEP addresses
SharedObjects(t) ==
    /\ vxlan.link # "absent"
    /\ vxlan.ip4[t][CtrlSlot] # NoAddr
    /\ vxlan.ip6[t][CtrlSlot] # NoAddr

\* C28 (shared-object invariant): whenever no call is in progress, a tenant is
\* marked initiated, with its link and controller address, if and only if at
\* least one of its devices has a live controller endpoint; also after a
\* create that failed for the tenant's first device.
C28_InitiatedIffLive ==
    Idle => \A t \in VxTenants :
               /\ t \in vxlan.initiated <=> LiveDevices(t) # {}
               /\ t \in vxlan.initiated <=> SharedObjects(t)

\* no call in progress: the tenant is initiated, the link is up with the
\* controller's addresses, and no device has an endpoint or an address; the MAC
\* of d1 is on record from the create that failed
C28_Witness ==
    /\ Idle
    /\ vxlan.initiated = {"0"}
    /\ SharedObjects("0")
    /\ LiveDevices("0") = {}
    /\ Allocated("0") = [ v4 |-> {CtrlSlot}, v6 |-> {CtrlSlot} ]
    /\ vxlan.mac = [d \in DevIds |-> IF d = "d1" THEN <<"t1", "d1">> ELSE NoMac]

\* C29 (what a successful VXLAN create leaves): the link carries a forwarding
\* entry from the device's VTEP MAC to (device_external_ip,
\* device_external_port) and a neighbour entry from the device's allocated VTEP
\* IP to its VTEP MAC, and the controller VTEP MAC and IP, the device VTEP IP
\* and the mask are returned, none of them null.
C29_CreateInstalls ==
    (ret.op = "create_tunnel_controller_endpoint" /\ ret.status = STATUS_SUCCESS)
    => \E ti \in {TunnelInfo(ret.key, ret.req.ext)} :
           /\ [ lladdr |-> ti.device_vtep_mac, dst |-> ti.device_external_ip,
                port |-> ti.device_external_port ] \in vxlan.fdb
           /\ [ dst |-> ret.fields.device_vtep_ip, lladdr |-> ti.device_vtep_mac ]
                  \in vxlan.neigh
           /\ ret.fields.controller_vtep_mac # "none"
           /\ ret.fields.controller_vtep_ip[2] # NoAddr
           /\ ret.fields.device_vtep_ip[2] # NoAddr
           /\ ret.fields.vtep_mask # "none"

\* a create returned success and the device's forwarding entry carries the
\* tenant's VXLAN port
C29_Witness ==
    /\ ret.op = "create_tunnel_controller_endpoint"
    /\ ret.status = STATUS_SUCCESS
    /\ \E ti \in {TunnelInfo(ret.key, ret.req.ext)} :
           /\ InstalledFor(ret.key).fdb
                  = {[ lladdr |-> ti.device_vtep_mac, dst |-> ti.device_external_ip,
                       port |-> ti.vxlan_port ]}
           /\ ti.vxlan_port # ti.device_external_port

\* the device's controller endpoint in the mode a call was made on
ModeEndpoint(name, k) ==
    IF name = "vxlan" THEN VxEndpoint(vxlan, k) ELSE DevOf(k) \in etherws.taps

\* a destroy of TunnelVXLAN that returned removed the device's entries,
\* released its addresses and left the other devices' entries in place
VxDestroysOwn(k) ==
    (DestroyEndpoint(k) /\ ret'.status # RAISED) =>
        /\ ~VxEndpoint(vxlan, k)'
        /\ vxlan'.ip4[VxTenantId(TenantOf(k))][DevOf(k)] = NoAddr
        /\ vxlan'.ip6[VxTenantId(TenantOf(k))][DevOf(k)] = NoAddr
        /\ \A j \in TenantKeys \ {k} : InstalledFor(j)' = InstalledFor(j)

\* a destroy of TunnelEtherWs removed the device's TAP port, dropped its
\* device_ip record and left the other devices' in place
EwDestroysOwn(k) ==
    EwDestroyEndpoint(k) =>
        /\ etherws'.taps = etherws.taps \ {DevOf(k)}
        /\ etherws'.device_ip = [etherws.device_ip EXCEPT ![DevOf(k)] = NoAddr]

\* C30 (the contract every tunnel mode keeps): a create that built the
\* device's endpoint and a destroy that returned report the STATUS_SUCCESS the
\* controller compares against; a destroy removes the objects of the named
\* device only and releases that device's address (or subnet record), leaving
\* the other devices' alone.
C30_ModeContract ==
    /\ []((/\ ret.op = "create_tunnel_controller_endpoint"
            /\ ret.status # RAISED
            /\ ModeEndpoint(ret.req.tunnel_name, ret.key))
           => ret.status = STATUS_SUCCESS)
    /\ []((ret.op = "destroy_tunnel_controller_endpoint" /\ ret.status # RAISED)
           => ret.status = STATUS_SUCCESS)
    /\ [][\A k \in TenantKeys : VxDestroysOwn(k) /\ EwDestroysOwn(k)]_vars

\* TunnelEtherWs built the device's TAP port and returned the tunnel_info
C30_Witness ==
    /\ ret.op = "create_tunnel_controller_endpoint"
    /\ ret.req.tunnel_name = "etherws"
    /\ ret.status = "tunnel_info"
    /\ DevOf(ret.key) \in etherws.taps
    /\ etherws.device_ip[DevOf(ret.key)] # NoAddr

\* the device holds nothing on the controller: no forwarding entry, no
\* neighbour entry, no address in the table TunnelVXLAN keeps for its tenant
NoControllerEndpoint(k) ==
    /\ InstalledFor(k) = [ fdb |-> {}, neigh |-> {} ]
    /\ vxlan.ip4[VxTenantId(TenantOf(k))][DevOf(k)] = NoAddr
    /\ vxlan.ip6[VxTenantId(TenantOf(k))][DevOf(k)] = NoAddr

\* C31 (update is destroy-then-create, never silently partial):
\* update_tunnel_controller_endpoint calls create only if destroy returned
\* STATUS_SUCCESS, returns STATUS_SUCCESS only if both did, and when the destroy
\* succeeded and the create failed it returns a non-success status and the
\* device is left without forwarding entry, neighbour entry and address.
C31_UpdateNeverPartial ==
    [][\A k \in TenantKeys : \A ext \in ExternalIps :
          UpdateEndpointWith(k, ext) =>
              \E d \in {VxDestroy(vxlan, TunnelInfo(k, ext))} :
                  /\ Made("create_tunnel_controller_endpoint")'
                         <=> d.out = STATUS_SUCCESS
                  /\ ret'.status = STATUS_SUCCESS =>
                         /\ d.out = STATUS_SUCCESS
                         /\ VxCreate(d.vx, TunnelInfo(k, ext)).out = STATUS_SUCCESS
                         /\ VxEndpoint(vxlan, k)'
                  /\ (d.out = STATUS_SUCCESS /\ ret'.status # STATUS_SUCCESS) =>
                         /\ ret'.status \in {STATUS_INTERNAL_ERROR, STATUS_UNAUTHORIZED}
                         /\ NoControllerEndpoint(k)']_vars

\* an update whose destroy returned success left by an exception of the
\* create: the device has its address allocated and a forwarding entry
C31_Witness ==
    /\ ret.op = "update_tunnel_controller_endpoint"
    /\ Made("create_tunnel_controller_endpoint")
    /\ ret.status = RAISED
    /\ ~NoControllerEndpoint(ret.key)

\* ------------------------------------------------------------------------ C32
\* the keep-alive threads that run and whose stop Event is not set
Uncancelled == {i \in 1..Len(mon) : mon[i].pc # "done" /\ mon[i].session \notin events}

\* C32 (no orphan monitors): in every reachable state, whatever the order of
\* the UpdateMgmtInfo calls of a device and of the callbacks of its keep-alive
\* threads, every running thread whose stop Event is not set is the one whose
\* Event is stored in connected_devices under its key.
C32_NoOrphanMonitor ==
    \A i \in Uncancelled : connected_devices[mon[i].key] = mon[i].session

\* a second session was started while the thread of the first was about to
\* call back, and the callback has run
C32_Witness ==
    /\ ret.op = "device_disconnected"
    /\ \E i \in 1..Len(mon) : \E j \in Uncancelled :
           /\ mon[i].key = mon[j].key
           /\ mon[i].session \in events
           /\ mon[i].fired = 1

\* ------------------------------------------------------------------------ C33
\* the storage writes of update_mgmt_info whose result the method tests
StorageWrites == UpdateFailures \ {"none"}

\* C33 (a monitor is started only by an UpdateMgmtInfo that succeeds): when
\* update_mgmt_info returns a non-success status because one of its storage
\* writes (management info, connected flag, state change) failed, no keep-alive
\* thread started by that call is running and no new stop Event is registered.
C33_MonitorOnlyOnSuccess ==
    [][\A k \in Keys : \A a \in Requests : \A fail \in StorageWrites :
          (UpdateMgmtInfoWith(k, a, fail) /\ Made("update_mgmt_info")')
              => /\ ret'.status = STATUS_INTERNAL_ERROR
                 /\ connected_devices'[k] = connected_devices[k]
                 /\ LiveMonitors(k)' \subseteq LiveMonitors(k)]_vars

\* the storage refused a write of an UpdateMgmtInfo of a mode with keep-alive
C33_Witness ==
    /\ ret.op = "UpdateMgmtInfo"
    /\ ret.status = STATUS_INTERNAL_ERROR
    /\ Made("update_mgmt_info")
    /\ ~Made("set_device_connected_flag")
    /\ require_keep_alive_messages(ret.req.tunnel_name)
    /\ \E i \in LiveMonitors(ret.key) : mon[i].session = connected_devices[ret.key]

\* ------------------------------------------------------------------------ C34
\* the device's controller endpoint in the mode its record names
RecordedEndpoint(k) == ModeEndpoint(db[k].tunnel_mode, k)

\* a handler that is about to call destroy_tunnel_controller_endpoint for the
\* key: unregister_device, update_mgmt_info and device_disconnected call it
\* when the record names a tunnel mode
InvokesDestroy(k) ==
    /\ db[k].exists
    /\ db[k].tunnel_mode # "none"
    /\ \/ UnregisterDevice(k)
       \/ \E a \in Requests : \E fail \in UpdateFailures : UpdateMgmtInfoWith(k, a, fail)
       \/ \E i \in 1..Len(mon) : mon[i].key = k /\ MonitorCallbackWith(i, "none")

\* C34 (no destroy without a live endpoint): the controller never invokes
\* destroy_tunnel_controller_endpoint for a device that has no live controller
\* endpoint; the persisted tunnel mode, which drives the call, is set only
\* while the endpoint is live.
C34_DestroyOnlyLive ==
    [][\A k \in Keys : InvokesDestroy(k) => RecordedEndpoint(k)]_vars

\* a second UnregisterDevice called destroy on the endpoint the first removed
C34_Witness ==
    /\ ret.op = "UnregisterDevice"
    /\ ret.status = RAISED
    /\ db[ret.key].tunnel_mode = "vxlan"
    /\ ~VxEndpoint(vxlan, ret.key)

\* ------------------------------------------------------------------------ C35
\* get_tenant_config returns None
Unreadable == [readable |-> FALSE, vxlan_port |-> 0]

\* C35 (registration is not atomic with the configuration lookup): when an
\* authenticated RegisterDevice returns INTERNAL_ERROR because the tenant
\* configuration cannot be read, the storage has already been written: the
\* record of a new device is created, the reconciliation flag of a known one is
\* set. A further authenticated RegisterDevice of that device therefore finds
\* the record and sets its reconciliation flag.
C35_FailedRegistrationPersists ==
    [][\A k \in Keys : \A config \in TenantConfigs :
          RegisterDeviceWith(k, TenantOf(k), config) =>
              /\ ~config.readable =>
                     /\ ret'.status = STATUS_INTERNAL_ERROR
                     /\ db'[k] = IF db[k].exists
                                 THEN [db[k] EXCEPT !.reconciliation_flag = TRUE]
                                 ELSE NewDevice
              /\ db[k].exists =>
                     /\ Made("set_device_reconciliation_flag")'
                     /\ ~Made("register_device")'
                     /\ db'[k].reconciliation_flag]_vars

\* the registration of a new device failed on the configuration and left its record
C35_Witness ==
    /\ ret.op = "RegisterDevice"
    /\ ret.status = STATUS_INTERNAL_ERROR
    /\ Made("register_device")
    /\ db[ret.key] = NewDevice

\* ------------------------------------------------------------------------ C36
\* what one ExecReconciliation does to the failure counter and to the
\* reconciliation flag, a failed attempt adding counted(fail) to the counter
CounterStep(k, nb, fail, added) ==
    /\ FailedAttempt(k, nb) =>
           /\ db'[k].reconciliation_failures = db[k].reconciliation_failures + added
           /\ db'[k].reconciliation_flag
    /\ ret'.status = STATUS_SUCCESS => db'[k].reconciliation_failures = 0
    /\ (~FailedAttempt(k, nb) /\ ret'.status # STATUS_SUCCESS) =>
           db'[k].reconciliation_failures = db[k].reconciliation_failures
    /\ (db[k].reconciliation_flag /\ ~db'[k].reconciliation_flag) => nb = AllSteps200

\* no other handler touches the counter or clears the flag
OnlyReconciliationCounts ==
    \A k \in Keys :
        \/ \E nb \in NbOutcomes : \E fail \in ReconFailures : \E can_reboot \in BOOLEAN :
               ExecReconciliationWith(k, nb, fail, can_reboot)
        \/ /\ db'[k].reconciliation_failures = db[k].reconciliation_failures
           /\ db[k].reconciliation_flag => db'[k].reconciliation_flag

\* C36 as stated (the counter is the number of failed attempts): every failed
\* reconciliation attempt adds one to the failure counter and leaves the flag
\* set, an ExecReconciliation that returns SUCCESS sets the counter to zero,
\* and nothing else changes the counter; so the counter is the number of
\* failed attempts since the last ExecReconciliation that returned SUCCESS (or
\* since the record was created). The flag is cleared only by an attempt in
\* which the three steps succeed.
C36_CounterCountsFailures ==
    [][/\ OnlyReconciliationCounts
       /\ \A k \in Keys : \A nb \in NbOutcomes : \A fail \in ReconFailures :
          \A can_reboot \in BOOLEAN :
              ExecReconciliationWith(k, nb, fail, can_reboot)
                  => CounterStep(k, nb, fail, 1)]_vars

\* C36 amended: the same, the counter counting the failed attempts whose write
\* of REBOOT_REQUIRED the storage took: a failed attempt whose write of
\* REBOOT_REQUIRED is refused is not counted.
C36_CounterCountsWritten ==
    [][/\ OnlyReconciliationCounts
       /\ \A k \in Keys : \A nb \in NbOutcomes : \A fail \in ReconFailures :
          \A can_reboot \in BOOLEAN :
              ExecReconciliationWith(k, nb, fail, can_reboot)
                  => CounterStep(k, nb, fail,
                                 IF fail = "change_device_state" THEN 0 ELSE 1)]_vars

\* the first failed attempt of a device that registered again: it is counted
\* and the flag is still set
C36_Witness ==
    /\ ret.op = "ExecReconciliation"
    /\ Made("reconciliation_failed")
    /\ db[ret.key].reconciliation_failures = 1
    /\ db[ret.key].reconciliation_flag
    /\ db[ret.key].state = "REBOOT_REQUIRED"

\* ------------------------------------------------------------------------ C37
\* C37 (reconciliation leaves the device state alone when it succeeds): an
\* ExecReconciliation that returns SUCCESS does not change the device state, so
\* a device in REBOOT_REQUIRED is still in REBOOT_REQUIRED after a later
\* reconciliation in which everything succeeded; the state becomes WORKING
\* only by an UpdateMgmtInfo that returns SUCCESS.
C37_SuccessKeepsState ==
    [][\A k \in Keys :
          /\ (Idle /\ ret'.op = "ExecReconciliation" /\ ret'.key = k
                   /\ ret'.status = STATUS_SUCCESS)
                 => db'[k].state = db[k].state
          /\ (db[k].state # "WORKING" /\ db'[k].state = "WORKING")
                 => /\ ret'.op = "UpdateMgmtInfo"
                    /\ ret'.key = k
                    /\ ret'.status = STATUS_SUCCESS]_vars

\* the reconciliation of a device in REBOOT_REQUIRED succeeded in all its steps
C37_Witness ==
    /\ ret.op = "ExecReconciliation"
    /\ ret.status = STATUS_SUCCESS
    /\ Made("rollback.commitAll")
    /\ db[ret.key].state = "REBOOT_REQUIRED"
    /\ ~db[ret.key].reconciliation_flag
    /\ db[ret.key].reconciliation_failures = 0

\* ------------------------------------------------------------------------ C38
\* what the teardown of the key's recorded endpoint answers
Teardown(k) == ModeDestroy(World, db[k].tunnel_mode, TunnelInfo(k, "none")).out

\* device_disconnected runs for the key and its teardown fails
TeardownFails(k, fail) ==
    /\ \/ DeviceDisconnectedWith(k, fail)
       \/ \E i \in 1..Len(mon) : mon[i].key = k /\ MonitorCallbackWith(i, fail)
    /\ db[k].exists
    /\ fail = "none"
    /\ db[k].tunnel_mode # "none"
    /\ Teardown(k) # STATUS_SUCCESS

\* the call has set the connected flag to false and left the rest of the
\* record and the key's stop Event as they were
OnlyDisconnected(k) ==
    /\ db' = [db EXCEPT ![k].connected = FALSE]
    /\ connected_devices' = connected_devices

\* device_disconnected of a key the storage has no record of returns
\* INTERNAL_ERROR and changes nothing
MissingRecord(k, fail) ==
    (DeviceDisconnectedWith(k, fail) /\ ~db[k].exists)
        => /\ ret'.status = STATUS_INTERNAL_ERROR
           /\ UNCHANGED <<db, Runtime>>

C39_FailureNotSeenRebooting ==
    [][\A k \in Keys :
          ( /\ db[k].state = "FAILURE"
            /\ db[k].reconciliation_failures >= MAX_ALLOWED_RECONCILIATION_FAILURES )
              => db'[k].state # "REBOOT_REQUIRED"]_vars

\* a KeepAlive served while reconciliation_failed is between its two state
\* writes reports REBOOT_REQUIRED for a device that is past the ceiling
C39_Witness ==
    /\ ret.op = "KeepAlive"
    /\ ret.device_state = "REBOOT_REQUIRED"
    /\ db[ret.key].reconciliation_failures >= MAX_ALLOWED_RECONCILIATION_FAILURES
    /\ thr[ReconThread].pc \in {"rf_count", "rf_ceiling"}

\* ------------------------------------------------------------------------ C40
\* the persisted devices that have a tunnel mode, in the order they are read
HasTunnelMode(device) == device.tunnel_mode # "none"
ToRestore == SelectSeq(get_devices, HasTunnelMode)

\* the tunnel information made of the device's own persisted fields
OwnInfo(k) ==
    [ device_id |-> DevOf(k), tenantid |-> TenantOf(k),
      device_external_ip |-> db[k].external_ip,
      device_external_port |-> db[k].external_port,
      vxlan_port |-> db[k].vxlan_port,
      device_vtep_mac |-> db[k].mgmt_mac[2] ]

\* C40 (restore at start): restore_mgmt_interfaces creates the controller
\* endpoint of the persisted devices that have a tunnel mode, in order, each
\* with the device's own persisted external address and port, VTEP MAC and
\* VXLAN port, never with those of a device read before it; it skips the
\* devices without a tunnel mode; it returns SUCCESS only if every one of them
\* was restored, and at the first restore that fails it returns that restore's
\* status and restores no further device.
C40_RestoreOwnEndpoints ==
    (ret.op = "restore_mgmt_interfaces" /\ ret.status # "None") =>
        /\ Len(ret.calls) <= Len(ToRestore)
        /\ \A i \in 1..Len(ret.calls) :
               /\ ret.calls[i].key = ToRestore[i].key
               /\ ret.calls[i].ti = OwnInfo(ret.calls[i].key)
               /\ i < Len(ret.calls) => ret.calls[i].out = STATUS_SUCCESS
        /\ ret.status = STATUS_SUCCESS =>
               /\ Len(ret.calls) = Len(ToRestore)
               /\ \A i \in 1..Len(ret.calls) : ret.calls[i].out = STATUS_SUCCESS
        /\ ret.status # STATUS_SUCCESS =>
               /\ ret.calls # <<>>
               /\ ret.status = Status(ret.calls[Len(ret.calls)].out)

\* a device was restored with the external address of the device read before it
C40_Witness ==
    /\ ret.op = "restore_mgmt_interfaces"
    /\ ret.status = STATUS_SUCCESS
    /\ \E i \in 1..Len(ret.calls) :
           /\ db[ret.calls[i].key].external_ip = Absent
           /\ ret.calls[i].ti.device_external_ip[2] # ret.calls[i].key
           /\ \E e \in vxlan.fdb : /\ e.lladdr = ret.calls[i].key
                                   /\ e.dst[2] # ret.calls[i].key
====
